---- MODULE Spec2Model ----
(***************************************************************************)
(* Verification model of the code-healing orchestrator:                    *)
(*   - DualCircuitBreaker and UnifiedConfidenceScorer                      *)
(*       (utils/python/confidence_scoring.py)                              *)
(*   - CascadingErrorHandler (utils/python/cascading_error_handler.py)     *)
(*   - PatchEnvelope and its helpers (utils/python/envelope.py,            *)
(*       utils/python/envelope_helpers.py)                                 *)
(*   - AIDebugger.process_error / attempt_with_backoff (ai-debugging.py)   *)
(*                                                                         *)
(* Conventions.  Python dicts are functions over string keys; Python None  *)
(* is the string "None"; line and column numbers are kept as strings since *)
(* the code only compares them.  Confidences are fixed-point integers in   *)
(* parts per million (Scale = 1.0); error budgets are in parts per         *)
(* thousand.  Members of the ErrorType enum are written by their names     *)
(* ("SYNTAX"), which keeps them apart from the plain strings ("syntax")    *)
(* the cascade handler's severity table is keyed by.                       *)
(***************************************************************************)
EXTENDS Integers, Sequences, FiniteSets, TLC

None == "None"
Scale == 1000 * 1000

Max(a, b) == IF a >= b THEN a ELSE b
Min(a, b) == IF a <= b THEN a ELSE b

\* dict helpers -----------------------------------------------------------
EmptyDict == [k \in {} |-> None]
DictHas(d, k) == k \in DOMAIN d
DictGet(d, k, default) == IF k \in DOMAIN d THEN d[k] ELSE default
DictSet(d, k, v) == [x \in (DOMAIN d) \cup {k} |-> IF x = k THEN v ELSE d[x]]
DictDel(d, k) == [x \in (DOMAIN d) \ {k} |-> d[x]]
DictUpdate(d, e) == [x \in (DOMAIN d) \cup (DOMAIN e) |-> IF x \in DOMAIN e THEN e[x] ELSE d[x]]
Last(s) == s[Len(s)]
Tail3(s) == IF Len(s) <= 3 THEN s ELSE SubSeq(s, Len(s) - 2, Len(s))

(***************************************************************************)
(* confidence_scoring.py: enums                                            *)
(***************************************************************************)
ErrorType == {"SYNTAX", "LOGIC", "RUNTIME", "PERFORMANCE", "SECURITY"}
CircuitState == {"CLOSED", "SYNTAX_OPEN", "LOGIC_OPEN", "PERMANENTLY_OPEN"}

(***************************************************************************)
(* confidence_scoring.py: DualCircuitBreaker                               *)
(***************************************************************************)
reset(b) ==
    [b EXCEPT !.syntax_attempts = 0, !.logic_attempts = 0, !.total_attempts = 0,
              !.syntax_errors = 0, !.logic_errors = 0, !.circuit_state = "CLOSED"]

DualCircuitBreaker(sma, lma, seb, leb) ==
    reset([syntax_max_attempts |-> sma, logic_max_attempts |-> lma,
           syntax_error_budget |-> seb, logic_error_budget |-> leb,
           syntax_attempts |-> 0, logic_attempts |-> 0, total_attempts |-> 0,
           syntax_errors |-> 0, logic_errors |-> 0, circuit_state |-> "CLOSED"])

\* a (bool, reason) pair; the counts a formatted reason carries are kept apart
Verdict(ok, text, n, m) == [allow |-> ok, reason |-> text, n |-> n, m |-> m]

\* errors / max(1, attempts) > budget, the budget in parts per thousand
RateExceeds(errors, attempts, budget) == errors * 1000 > budget * Max(1, attempts)

can_attempt_without_attempt_budget(b, error_type) ==
    IF b.circuit_state = "PERMANENTLY_OPEN"
    THEN Verdict(FALSE, "Circuit breaker permanently open", 0, 0)
    ELSE IF error_type = "SYNTAX"
    THEN IF b.circuit_state = "SYNTAX_OPEN"
         THEN Verdict(FALSE, "Syntax circuit breaker open", 0, 0)
         ELSE IF RateExceeds(b.syntax_errors, b.syntax_attempts, b.syntax_error_budget)
         THEN Verdict(FALSE, "Syntax error rate exceeded budget", b.syntax_errors, b.syntax_attempts)
         ELSE Verdict(TRUE, "OK", 0, 0)
    ELSE IF error_type \in {"LOGIC", "RUNTIME"}
    THEN IF b.circuit_state = "LOGIC_OPEN"
         THEN Verdict(FALSE, "Logic circuit breaker open", 0, 0)
         ELSE IF RateExceeds(b.logic_errors, b.logic_attempts, b.logic_error_budget)
         THEN Verdict(FALSE, "Logic error rate exceeded budget", b.logic_errors, b.logic_attempts)
         ELSE Verdict(TRUE, "OK", 0, 0)
    ELSE Verdict(TRUE, "OK", 0, 0)

can_attempt(b, error_type) ==
    IF b.circuit_state = "PERMANENTLY_OPEN"
    THEN Verdict(FALSE, "Circuit breaker permanently open", 0, 0)
    ELSE IF error_type = "SYNTAX"
    THEN IF b.circuit_state = "SYNTAX_OPEN"
         THEN Verdict(FALSE, "Syntax circuit breaker open", 0, 0)
         ELSE IF b.syntax_attempts >= b.syntax_max_attempts
         THEN Verdict(FALSE, "Syntax attempts exceeded", b.syntax_attempts, b.syntax_max_attempts)
         ELSE IF RateExceeds(b.syntax_errors, b.syntax_attempts, b.syntax_error_budget)
         THEN Verdict(FALSE, "Syntax error rate exceeded budget", b.syntax_errors, b.syntax_attempts)
         ELSE Verdict(TRUE, "OK", 0, 0)
    ELSE IF error_type \in {"LOGIC", "RUNTIME"}
    THEN IF b.circuit_state = "LOGIC_OPEN"
         THEN Verdict(FALSE, "Logic circuit breaker open", 0, 0)
         ELSE IF b.logic_attempts >= b.logic_max_attempts
         THEN Verdict(FALSE, "Logic attempts exceeded", b.logic_attempts, b.logic_max_attempts)
         ELSE IF RateExceeds(b.logic_errors, b.logic_attempts, b.logic_error_budget)
         THEN Verdict(FALSE, "Logic error rate exceeded budget", b.logic_errors, b.logic_attempts)
         ELSE Verdict(TRUE, "OK", 0, 0)
    ELSE Verdict(TRUE, "OK", 0, 0)

\* the lane bookkeeping of record_attempt for the syntax class
RecordSyntax(b, success) ==
    LET b1 == [b EXCEPT !.syntax_attempts = @ + 1]
    IN  IF success THEN b1
        ELSE LET b2 == [b1 EXCEPT !.syntax_errors = @ + 1]
             IN  IF b2.syntax_errors * 1000 > b2.syntax_error_budget * b2.syntax_attempts
                    \/ b2.syntax_attempts >= b2.syntax_max_attempts
                 THEN [b2 EXCEPT !.circuit_state = "SYNTAX_OPEN"]
                 ELSE b2

\* the lane bookkeeping of record_attempt for the logic and runtime classes
RecordLogic(b, success) ==
    LET b1 == [b EXCEPT !.logic_attempts = @ + 1]
    IN  IF success THEN b1
        ELSE LET b2 == [b1 EXCEPT !.logic_errors = @ + 1]
             IN  IF b2.logic_errors * 1000 > b2.logic_error_budget * b2.logic_attempts
                    \/ b2.logic_attempts >= b2.logic_max_attempts
                 THEN [b2 EXCEPT !.circuit_state = "LOGIC_OPEN"]
                 ELSE b2

\* the closing test of record_attempt ("If both circuits are open, permanently open")
PermanentCheck(b) ==
    IF b.circuit_state = "SYNTAX_OPEN" /\ b.logic_attempts >= b.logic_max_attempts
    THEN [b EXCEPT !.circuit_state = "PERMANENTLY_OPEN"]
    ELSE b

\* a variant of record_attempt in which a success clears both lanes' error
\* counts and closes the circuit
record_attempt_forgiving_on_success(b, error_type, success) ==
    LET b0 == [b EXCEPT !.total_attempts = @ + 1]
        b1 == IF error_type = "SYNTAX" THEN RecordSyntax(b0, success)
              ELSE IF error_type \in {"LOGIC", "RUNTIME"} THEN RecordLogic(b0, success)
              ELSE b0
    IN  IF success
        THEN [b1 EXCEPT !.syntax_errors = 0, !.logic_errors = 0, !.circuit_state = "CLOSED"]
        ELSE PermanentCheck(b1)

record_attempt(b, error_type, success) ==
    LET b0 == [b EXCEPT !.total_attempts = @ + 1]
        b1 == IF error_type = "SYNTAX" THEN RecordSyntax(b0, success)
              ELSE IF error_type \in {"LOGIC", "RUNTIME"} THEN RecordLogic(b0, success)
              ELSE b0
    IN  PermanentCheck(b1)

get_state_summary(b) ==
    [circuit_state |-> b.circuit_state,
     syntax_attempts |-> b.syntax_attempts, logic_attempts |-> b.logic_attempts,
     total_attempts |-> b.total_attempts,
     syntax_errors |-> b.syntax_errors, logic_errors |-> b.logic_errors]

(***************************************************************************)
(* cascading_error_handler.py: CascadingErrorHandler                       *)
(***************************************************************************)
max_cascade_depth == 5

add_error_to_chain(chain, error_type, error_message, confidence_score, attempt_number) ==
    Append(chain, [error_type |-> error_type, error_message |-> error_message,
                   confidence_score |-> confidence_score,
                   attempt_number |-> attempt_number,
                   is_cascading |-> Len(chain) > 0])

has_repeating_pattern(chain) ==
    IF Len(chain) < 3 THEN FALSE
    ELSE LET recent == Tail3(chain)
         IN  Cardinality({recent[i].error_type : i \in 1..3}) = 1

has_degrading_confidence(chain) ==
    IF Len(chain) < 3 THEN FALSE
    ELSE LET recent == Tail3(chain)
         IN  recent[1].confidence_score > recent[2].confidence_score
             /\ recent[2].confidence_score > recent[3].confidence_score

severity_levels == [syntax |-> 1, logic |-> 2, runtime |-> 3, performance |-> 4, security |-> 5]

has_error_escalation(chain) ==
    IF Len(chain) < 2 THEN FALSE
    ELSE LET recent == Tail3(chain)
             sev(i) == DictGet(severity_levels, recent[i].error_type, 1)
         IN  Len(recent) >= 2 /\ sev(Len(recent)) > sev(Len(recent) - 1)

StopVerdict(stop, text) == [stop |-> stop, reason |-> text]

should_stop_attempting(chain) ==
    IF Len(chain) = 0 THEN StopVerdict(FALSE, "No errors in chain")
    ELSE IF Len(chain) >= max_cascade_depth THEN StopVerdict(TRUE, "Cascade depth exceeded")
    ELSE IF has_repeating_pattern(chain) THEN StopVerdict(TRUE, "Repeating error pattern detected")
    ELSE IF has_degrading_confidence(chain)
    THEN StopVerdict(TRUE, "Confidence scores degrading with each attempt")
    ELSE IF has_error_escalation(chain)
    THEN StopVerdict(TRUE, "Error severity escalating with each fix attempt")
    ELSE StopVerdict(FALSE, "Continue attempting fixes")

reset_cascade(chain) == << >>

(***************************************************************************)
(* confidence_scoring.py: UnifiedConfidenceScorer.  A logit vector enters  *)
(* the model as max(softmax(logits / temperature)), in parts per million;  *)
(* component values are multiples of one thousandth.                       *)
(***************************************************************************)
calibration_samples == 1000

calculate_syntax_confidence(max_prob, error_type) ==
    IF error_type = "SYNTAX" THEN Min((max_prob * 12) \div 10, Scale) ELSE max_prob

calculate_logic_confidence(max_prob, error_type) ==
    IF error_type \in {"LOGIC", "RUNTIME"} THEN (max_prob * 9) \div 10 ELSE max_prob

\* the taxonomy branch of the complexity penalty: max(0.1, 1 - difficulty * 0.5)
taxonomy_penalty(difficulty) == Max(Scale \div 10, Scale - difficulty \div 2)

\* historical_data is a dict (empty for None); complexity_score is in thousandths
calculate_components(historical_data, taxonomy) ==
    [historical_success_rate |-> DictGet(historical_data, "success_rate", Scale \div 2),
     pattern_similarity |-> DictGet(historical_data, "pattern_similarity", Scale \div 2),
     code_complexity_penalty |->
        IF DictHas(taxonomy, "difficulty") THEN taxonomy_penalty(taxonomy.difficulty)
        ELSE IF DictHas(historical_data, "complexity_score")
        THEN Max(Scale \div 10, Scale - (historical_data.complexity_score - 1000) * 100)
        ELSE Scale,
     test_coverage |-> DictGet(historical_data, "test_coverage", Scale \div 2)]

\* x * y for x in parts per million and y a multiple of one thousandth
Times(x, y) == (x * (y \div 1000)) \div 1000

combine_confidences(syntax_conf, logic_conf, components, error_type) ==
    LET base == IF error_type = "SYNTAX" THEN syntax_conf
                ELSE IF error_type \in {"LOGIC", "RUNTIME"} THEN logic_conf
                ELSE (syntax_conf + logic_conf) \div 2
        a1 == Times(base, components.historical_success_rate)
        a2 == Times(a1, components.pattern_similarity)
        a3 == Times(a2, components.code_complexity_penalty)
        a4 == Times(a3, Scale \div 2 + components.test_coverage \div 2)
    IN  Max(0, Min(Scale, a4))

beta_calibrate(historical_scores, confidence) ==
    IF Len(historical_scores) < 10 THEN confidence
    ELSE LET correct == Cardinality({i \in 1..Len(historical_scores) : historical_scores[i].was_correct})
             total == Len(historical_scores)
             empirical_rate == (correct * Scale) \div total
         IN  (confidence * 7 + empirical_rate * 3) \div 10

calculate_confidence(historical_scores, max_prob, error_type, historical_data, taxonomy) ==
    LET syntax_confidence == calculate_syntax_confidence(max_prob, error_type)
        logic_confidence == calculate_logic_confidence(max_prob, error_type)
        components == calculate_components(historical_data, taxonomy)
        overall == combine_confidences(syntax_confidence, logic_confidence, components, error_type)
    IN  [overall_confidence |-> IF Len(historical_scores) >= 10
                                THEN beta_calibrate(historical_scores, overall) ELSE overall,
         syntax_confidence |-> syntax_confidence,
         logic_confidence |-> logic_confidence,
         calibration_method |-> IF Len(historical_scores) < 10 THEN "temperature_scaling"
                                ELSE "beta_calibration",
         components |-> components]

record_outcome(historical_scores, confidence, was_correct) ==
    LET appended == Append(historical_scores, [confidence |-> confidence, was_correct |-> was_correct])
    IN  IF Len(appended) > calibration_samples THEN Tail(appended) ELSE appended

(***************************************************************************)
(* Text.  A text is a sequence of tokens (a line of code, a word of a      *)
(* message); substring tests are token tests.  Lower is str.lower() on     *)
(* the tokens the model uses.                                              *)
(***************************************************************************)
Lower(w) ==
    CASE w = "DATABASE_SCHEMA_CHANGE" -> "database_schema_change"
      [] w = "SyntaxError:" -> "syntaxerror:"
      [] w = "Undefined" -> "undefined"
      [] OTHER -> w

LowerText(t) == [i \in 1..Len(t) |-> Lower(t[i])]
Contains(t, w) == \E i \in 1..Len(t) : t[i] = w
Count(t, w) == Cardinality({i \in 1..Len(t) : t[i] = w})
Repeat(w, n) == [i \in 1..n |-> w]

(***************************************************************************)
(* envelope_helpers.py.  A payload is the envelope's dict; `clock` stands  *)
(* for the wall clock the helpers read.                                    *)
(***************************************************************************)
\* None in a slot that otherwise holds an object, and in one that holds a count
NoneObj == [none |-> TRUE]
NoInt == 0 - 1

append_attempt(env, success, note, breaker_state, failure_count, clock) ==
    LET attempts == DictGet(env, "attempts", << >>)
        rec0 == [ts |-> clock, success |-> success]
        rec1 == IF note # << >> THEN DictSet(rec0, "note", note) ELSE rec0
        rec2 == IF breaker_state # None /\ breaker_state # ""
                THEN DictSet(rec1, "breaker",
                             IF failure_count # NoInt
                             THEN [state |-> breaker_state, failure_count |-> failure_count]
                             ELSE [state |-> breaker_state])
                ELSE rec1
    IN  DictSet(env, "attempts", Append(attempts, rec2))

\* 8) mark_success (latching)
mark_success(env, success) ==
    IF DictGet(env, "success", FALSE) = TRUE THEN env ELSE DictSet(env, "success", success)

set_envelope_timestamp(env, clock) == DictSet(env, "timestamp", clock)

VOLATILE_KEYS == {"attempts", "timestamp", "envelopeHash", "developer_message",
                  "developerMessage", "developer_flag_reason", "timeline"}

\* the key-sorted, whitespace-free JSON text of obj, and the SHA-256 digest of
\* a text: tags on the value, so that two texts (two digests) agree exactly
\* when the values do, whatever order the keys were inserted in
json_dumps_stable(obj) == [json |-> obj]
sha256_hex(text) == [sha256 |-> text]

\* a variant of compute_stable_envelope_hash that keeps the timeline in the hashed dict
compute_envelope_hash_with_timeline(env) ==
    sha256_hex(json_dumps_stable([k \in (DOMAIN env) \ (VOLATILE_KEYS \ {"timeline"}) |-> env[k]]))

compute_stable_envelope_hash(env) ==
    sha256_hex(json_dumps_stable([k \in (DOMAIN env) \ VOLATILE_KEYS |-> env[k]]))

set_envelope_hash(env) == DictSet(env, "envelopeHash", compute_stable_envelope_hash(env))

update_counters(env, kind, errors_resolved) ==
    LET c0 == DictGet(env, "counters", EmptyDict)
        c1 == DictSet(c0, "totalAttempts", DictGet(c0, "totalAttempts", 0) + 1)
        c2 == IF kind = "syntax"
              THEN DictSet(c1, "syntaxAttempts", DictGet(c1, "syntaxAttempts", 0) + 1) ELSE c1
        c3 == IF kind = "logic"
              THEN DictSet(c2, "logicAttempts", DictGet(c2, "logicAttempts", 0) + 1) ELSE c2
        c4 == DictSet(c3, "errorsResolvedTotal",
                      DictGet(c3, "errorsResolvedTotal", 0) + Max(0, errors_resolved))
    IN  DictSet(env, "counters", c4)

add_timeline_entry(env, attempt, breaker_state, action, clock) ==
    DictSet(env, "timeline",
            Append(DictGet(env, "timeline", << >>),
                   [attempt |-> attempt, ts |-> clock, errorsDetected |-> None,
                    errorsResolved |-> None, overallConfidence |-> None,
                    breakerState |-> breaker_state, action |-> action]))

clamp01(x) == Max(0, Min(Scale, x))

update_trend(env, errors_detected, errors_resolved, quality_score, improvement_velocity, stagnation_risk) ==
    LET ed == Max(0, errors_detected)
        er == Max(0, errors_resolved)
        trend == IF er > 0 THEN "improving"
                 ELSE IF improvement_velocity < 0 THEN "worsening" ELSE "plateauing"
    IN  DictSet(env, "trendMetadata",
                [errorsDetected |-> ed, errorsResolved |-> er, errorTrend |-> trend,
                 codeQualityScore |-> clamp01(quality_score),
                 improvementVelocity |-> clamp01(improvement_velocity),
                 stagnationRisk |-> clamp01(stagnation_risk)])

\* 2) merge_confidence; an argument left out (None) is NoInt
merge_confidence(env, syntax, logic, risk) ==
    LET c0 == DictGet(env, "confidenceComponents", EmptyDict)
        c1 == IF syntax # NoInt THEN DictSet(c0, "syntax", clamp01(syntax)) ELSE c0
        c2 == IF logic # NoInt THEN DictSet(c1, "logic", clamp01(logic)) ELSE c1
        c3 == IF risk # NoInt THEN DictSet(c2, "risk", clamp01(risk)) ELSE c2
    IN  DictSet(env, "confidenceComponents", c3)

(***************************************************************************)
(* envelope.py: PatchEnvelope (its _data dict) and AIPatchEnvelope         *)
(***************************************************************************)
PatchEnvelope(patch_id, patch_data, metadata) ==
    [patch_id |-> patch_id, patch_data |-> patch_data, metadata |-> metadata,
     attempts |-> << >>, confidenceComponents |-> EmptyDict, breakerState |-> "CLOSED",
     cascadeDepth |-> 0, resourceUsage |-> EmptyDict, flagged_for_developer |-> FALSE,
     developer_message |-> "", developer_flag_reason |-> None, success |-> FALSE,
     trendMetadata |-> [errorsDetected |-> 0, errorsResolved |-> 0, errorTrend |-> "unknown"],
     counters |-> EmptyDict, timeline |-> << >>, envelopeHash |-> NoneObj]

merge_metadata(env, extra) == [env EXCEPT !.metadata = DictUpdate(@, extra)]

PatchEnvelope_mark_success(env, success) == [env EXCEPT !.success = success]

\* flag_for_developer(message=..., reason=...); an argument left out is None
flag_for_developer(env, message, reason) ==
    LET e1 == [env EXCEPT !.flagged_for_developer = TRUE]
        e2 == IF message # None THEN [e1 EXCEPT !.developer_message = message] ELSE e1
    IN  IF reason # None THEN [e2 EXCEPT !.developer_flag_reason = reason] ELSE e2

clear_developer_flag(env) ==
    [env EXCEPT !.flagged_for_developer = FALSE, !.developer_message = "",
                !.developer_flag_reason = None]

set_developer_message(env, message) == [env EXCEPT !.developer_message = message]

set_developer_reason(env, reason) == [env EXCEPT !.developer_flag_reason = reason]

to_dict(env, include_timestamp, clock) ==
    IF include_timestamp THEN DictSet(env, "timestamp", clock) ELSE env

\* json.loads(envelope.to_json()): the dict view with the timestamp added
to_json(env, clock) == to_dict(env, TRUE, clock)

\* _absorb of a payload whose keys are in the order of the snapshot (a block
\* that only assigns keeps it: patch_id and patch_data come first); the result
\* is [raised, env], raised naming the ValueError
absorb(env, mutated) ==
    IF DictHas(mutated, "patch_id") /\ mutated.patch_id # env.patch_id
    THEN [raised |-> "patch_id is immutable once set", env |-> env]
    ELSE IF DictHas(mutated, "patch_data") /\ mutated.patch_data # env.patch_data
    THEN [raised |-> "patch_data mutation is not supported via mutable_payload", env |-> env]
    ELSE [raised |-> None, env |-> DictUpdate(env, mutated)]

\* _absorb over a payload whose keys come in the order `keys`: every key before
\* the one that raises has already been written to the envelope
RECURSIVE absorb_keys(_, _, _)
absorb_keys(env, mutated, keys) ==
    IF keys = << >> THEN [raised |-> None, env |-> env]
    ELSE LET key == Head(keys)
             value == mutated[key]
         IN  IF key = "patch_id" /\ value # env.patch_id
             THEN [raised |-> "patch_id is immutable once set", env |-> env]
             ELSE IF key = "patch_data" /\ value # env.patch_data
             THEN [raised |-> "patch_data mutation is not supported via mutable_payload", env |-> env]
             ELSE absorb_keys(DictSet(env, key, value), mutated, Tail(keys))

\* patch_id = f"patch_{int(datetime.now().timestamp())}_{hash(str(patch))}":
\* the clock, kept in milliseconds, goes into the id in whole seconds
wrap_patch(patch, clock) ==
    PatchEnvelope([ts |-> clock \div 1000, hash |-> patch], patch,
                  [created_at |-> clock, language |-> "python", ai_generated |-> TRUE])

(***************************************************************************)
(* ops/rebank/rebank_py.py.  A blob of compiler or interpreter output is   *)
(* kept as what the parser's patterns extract from it: its kind ("none"    *)
(* for empty text, "syntax" when SYNTAX_ERROR_RE matches, "traceback" when *)
(* only GENERIC_ERROR_RE does, "plain" when neither does), the file, line  *)
(* and column it points at, and its closing line.                          *)
(***************************************************************************)
NoBlob == [kind |-> "none", file |-> None, line |-> None, column |-> None, text |-> ""]

parse_py_compile_stderr(stderr, default_file) ==
    IF stderr.kind = "none" THEN NoneObj
    ELSE IF stderr.kind = "syntax"
    THEN [file |-> stderr.file, line |-> stderr.line, column |-> stderr.column,
          message |-> stderr.text, code |-> "PY_SYNTAX", severity |-> "FATAL_SYNTAX"]
    ELSE IF stderr.kind = "traceback"
    THEN [file |-> stderr.file, line |-> stderr.line, column |-> stderr.column,
          message |-> stderr.text, code |-> "PY_RUNTIME", severity |-> "FATAL_RUNTIME"]
    ELSE IF default_file # None
    THEN [file |-> default_file, line |-> None, column |-> None,
          message |-> stderr.text, code |-> "PY_UNPARSED", severity |-> "FATAL_SYNTAX"]
    ELSE NoneObj

\* main(), --stdin mode: what the process prints and its exit code
rebank_stdin(stderr, quiet) ==
    LET error == parse_py_compile_stderr(stderr, None)
    IN  IF error # NoneObj THEN [returncode |-> 1, stdout |-> error]
        ELSE IF ~quiet THEN [returncode |-> 0, stdout |-> [status |-> "clean"]]
        ELSE [returncode |-> 0, stdout |-> NoneObj]

\* check_syntax: py_compile's stderr is empty exactly when it exits with 0
check_syntax(file_path, compile_stderr) ==
    IF compile_stderr.kind = "none" THEN NoneObj
    ELSE parse_py_compile_stderr(compile_stderr, file_path)

\* main(), file mode with one file
rebank_file(file_path, compile_stderr, quiet) ==
    LET error == check_syntax(file_path, compile_stderr)
    IN  IF error # NoneObj THEN [returncode |-> 1, stdout |-> error]
        ELSE IF ~quiet THEN [returncode |-> 0, stdout |-> [status |-> "clean", files_checked |-> 1]]
        ELSE [returncode |-> 0, stdout |-> NoneObj]

\* envelope_helpers.run_rebanker for language "python"; tool is how the
\* subprocess fared: "ok", "missing" (no script) or "timeout"
run_rebanker(env, file_path, compile_stderr, tool) ==
    LET md == DictGet(env, "metadata", EmptyDict)
        put(r) == DictSet(env, "metadata", DictSet(md, "rebanker_result", r))
    IN  IF tool = "missing" THEN put([status |-> "rebanker_not_found", script |-> "rebank_py.py"])
        ELSE IF tool = "timeout" THEN put([status |-> "timeout", file |-> file_path])
        ELSE LET result == rebank_file(file_path, compile_stderr, TRUE)
                 rebanker_data == IF result.stdout # NoneObj THEN result.stdout
                                  ELSE [status |-> "no_output"]
                 e1 == put(rebanker_data)
             IN  IF DictHas(rebanker_data, "line") /\ rebanker_data.line # None
                    /\ ~DictHas(e1, "trendMetadata")
                 THEN DictSet(e1, "trendMetadata",
                              [errorsDetected |-> 1, errorsResolved |-> 0, errorTrend |-> "unknown"])
                 ELSE e1

(***************************************************************************)
(* utils/python/human_debugging.py and strategy.py                         *)
(***************************************************************************)
\* SeniorDeveloperSimulator.debug_like_human(...)["recommended_strategy"],
\* with the orchestrator's default when no heuristic is confident
recommended_strategy(error, code_snippet) ==
    IF Contains(LowerText(error), "undefined") THEN "RollbackStrategy"
    ELSE IF Contains(LowerText(error), "overflow") THEN "SecurityAuditStrategy"
    ELSE "LogAndFixStrategy"

\* Debugger.debug: the outcome of the chosen strategy
strategy_execute(strategy, error) ==
    [strategy |-> strategy, success |-> TRUE,
     details |-> CASE strategy = "RollbackStrategy" ->
                        <<"Changes", "rolled", "back", "to", "previous", "stable", "state">>
                   [] strategy = "SecurityAuditStrategy" ->
                        <<"Security", "vulnerability", "addressed">>
                   [] OTHER -> <<"Error", "logged", "and", "basic", "fix", "applied">>]

(***************************************************************************)
(* ai-debugging.py: helpers, HealerPolicy, AIDebugger internals.           *)
(* The clock is in milliseconds.                                           *)
(***************************************************************************)
sha256_json(obj) == sha256_hex(json_dumps_stable(obj))

\* "raw and stored_hash" is Python truthiness: present, not None, not empty
Truthy(d, k) == DictHas(d, k) /\ d[k] # NoneObj /\ d[k] # EmptyDict

\* TRUE when assert_rebanker_immutable raises
rebanker_violated(envelope_metadata) ==
    /\ Truthy(envelope_metadata, "rebanker_raw")
    /\ Truthy(envelope_metadata, "rebanker_hash")
    /\ sha256_json(envelope_metadata.rebanker_raw) # envelope_metadata.rebanker_hash

\* a variant of the default policy whose logic lane tolerates any error rate
HealerPolicy_with_full_logic_budget ==
    [syntax_conf_floor |-> 980000, logic_conf_floor |-> 800000,
     max_syntax_attempts |-> 3, max_logic_attempts |-> 10,
     syntax_error_budget |-> 30, logic_error_budget |-> 1000,
     rate_limit_per_min |-> 10, sandbox_isolation |-> "full",
     require_human_on_risky |-> TRUE,
     risky_keywords |-> <<"database_schema_change", "authentication_bypass",
                          "production_data_modification">>]

HealerPolicy ==
    [syntax_conf_floor |-> 980000, logic_conf_floor |-> 800000,
     max_syntax_attempts |-> 3, max_logic_attempts |-> 10,
     syntax_error_budget |-> 30, logic_error_budget |-> 100,
     rate_limit_per_min |-> 10, sandbox_isolation |-> "full",
     require_human_on_risky |-> TRUE,
     risky_keywords |-> <<"database_schema_change", "authentication_bypass",
                          "production_data_modification">>]

RateWindow == 60 * 1000

\* a variant of _enforce_rate_limit whose test is > where the code has >=
enforce_rate_limit_off_by_one(tokens, clock, limit) ==
    LET kept == SelectSeq(tokens, LAMBDA t : clock - t < RateWindow)
    IN  IF Len(kept) > limit THEN [raised |-> TRUE, tokens |-> kept]
        ELSE [raised |-> FALSE, tokens |-> Append(kept, clock)]

\* _enforce_rate_limit: the pruned token list is stored before the test
enforce_rate_limit(tokens, clock, limit) ==
    LET kept == SelectSeq(tokens, LAMBDA t : clock - t < RateWindow)
    IN  IF Len(kept) >= limit THEN [raised |-> TRUE, tokens |-> kept]
        ELSE [raised |-> FALSE, tokens |-> Append(kept, clock)]

conf_floor(policy, et) ==
    IF et = "SYNTAX" THEN policy.syntax_conf_floor ELSE policy.logic_conf_floor

conf_for_type(c, et) ==
    IF et = "SYNTAX" THEN c.syntax_confidence ELSE c.logic_confidence

\* json.dumps(patch): the keys and the values of the patch, as a text
patch_json(patch) ==
    <<"message">> \o patch.message \o <<"patched_code">> \o patch.patched_code
    \o <<"original_code">> \o patch.original_code \o <<"language", patch.language>>

\* a mutation of _is_risky_patch: the blob is searched as it is, not lowercased
is_risky_patch_case_sensitive(patch, risky_keywords) ==
    \E i \in 1..Len(risky_keywords) : Contains(patch_json(patch), risky_keywords[i])

is_risky_patch(patch, risky_keywords) ==
    \E i \in 1..Len(risky_keywords) : Contains(LowerText(patch_json(patch)), risky_keywords[i])

\* a mutation of the proceed gate: the confidence floor is not consulted
gate_blocked_without_floor(can, stop_cascade, confidence, floor) ==
    ~can \/ stop_cascade

\* step 6: not can_attempt or stop_cascade or confidence below the floor
gate_blocked(can, stop_cascade, confidence, floor) ==
    ~can \/ stop_cascade \/ confidence < floor

\* _load_patch_envelope_schema: the schema document read from disk at every
\* call, kept as the top-level fields it requires; the published document
\* unless the world holds another
load_patch_envelope_schema(world) ==
    DictGet(world, "schema", {"patch_id", "patch_data", "metadata", "attempts", "success"})

\* jsonschema.validate passes
SchemaValid(envelope_json, schema) == schema \subseteq DOMAIN envelope_json

\* _record_attempt: note is a text; no key of the breaker summary is "state"
\* or "failure_count"
AIDebugger_record_attempt(env, breaker, success, note, clock) ==
    LET bsum == get_state_summary(breaker)
        kind == IF Contains(LowerText(note), "syntax") THEN "syntax"
                ELSE IF Contains(LowerText(note), "logic") THEN "logic" ELSE "other"
        p1 == append_attempt(env, success, note, DictGet(bsum, "state", "CLOSED"),
                             DictGet(bsum, "failure_count", NoInt), clock)
        p2 == mark_success(p1, success)
        p3 == update_counters(p2, kind, 0)
        attempt_no == DictGet(DictGet(p3, "counters", EmptyDict), "totalAttempts",
                              Len(DictGet(p3, "attempts", << >>)))
        p4 == add_timeline_entry(p3, attempt_no, DictGet(bsum, "state", None),
                                 IF success THEN "promote" ELSE "continue", clock)
        p5 == set_envelope_timestamp(p4, clock)
    IN  absorb(env, set_envelope_hash(p5)).env

finalize(env, action, extras, clock) ==
    [action |-> action, envelope |-> to_json(env, clock), extras |-> extras]

\* step 7b up to the truth-flow block: the classifier's packet is left in
\* payload["metadata"]["rebanker_result"]
rebank_step(payload, sandbox_result, world) ==
    LET runtime_error == DictGet(sandbox_result, "error_message", NoBlob)
        Unparsed(msg) == [file |-> "unknown", line |-> None, column |-> None, message |-> msg,
                          code |-> "RUNTIME_ERROR_UNPARSED", severity |-> "FATAL_RUNTIME"]
        put(r) == DictSet(payload, "metadata",
                          DictSet(DictGet(payload, "metadata", EmptyDict), "rebanker_result", r))
    IN  IF runtime_error.kind # "none"
        THEN IF world.tool = "missing" THEN put(Unparsed(runtime_error.text))
             ELSE IF world.tool = "timeout" THEN put(Unparsed("Parse error"))
             ELSE LET result == rebank_stdin(runtime_error, FALSE)
                  IN  IF result.returncode = 0
                      THEN put(DictUpdate(result.stdout,
                                          [code |-> "RUNTIME_ERROR", severity |-> "FATAL_RUNTIME"]))
                      ELSE put(Unparsed(runtime_error.text))
        ELSE run_rebanker(payload, "tmp.py", world.compile, world.tool)

\* a mutation of the truth-flow block: the hash is taken of the metadata the
\* packet sits in, not of the packet
truth_flow_hashing_metadata(payload) ==
    LET md == DictGet(payload, "metadata", EmptyDict)
        rebanker_result == DictGet(md, "rebanker_result", EmptyDict)
        md1 == DictSet(md, "rebanker_raw", rebanker_result)
        md2 == DictSet(md1, "rebanker_hash", sha256_json(md))
        md3 == DictSet(md2, "rebanker_interpreted", None)
    IN  DictSet(payload, "metadata", DictDel(md3, "rebanker_result"))

\* the truth-flow block: rebanker_raw, rebanker_hash, rebanker_interpreted
truth_flow(payload) ==
    LET md == DictGet(payload, "metadata", EmptyDict)
        rebanker_result == DictGet(md, "rebanker_result", EmptyDict)
        md1 == DictSet(md, "rebanker_raw", rebanker_result)
        md2 == DictSet(md1, "rebanker_hash", sha256_json(rebanker_result))
        md3 == DictSet(md2, "rebanker_interpreted", None)
    IN  DictSet(payload, "metadata", DictDel(md3, "rebanker_result"))

\* step 8b: trend metadata from the packet (velocity is 0 when nothing was resolved)
trend_step(payload) ==
    LET rebanker_raw == DictGet(DictGet(payload, "metadata", EmptyDict), "rebanker_raw", EmptyDict)
        current_errors == IF DictHas(rebanker_raw, "line") /\ rebanker_raw.line # None THEN 1 ELSE 0
        previous_errors == DictGet(DictGet(payload, "trendMetadata", EmptyDict), "errorsDetected", 0)
        errors_resolved == Max(0, previous_errors - current_errors)
        quality_score == IF current_errors = 0 THEN Scale
                         ELSE IF errors_resolved > 0 THEN Scale \div 2 ELSE Scale \div 10
        improvement_velocity == IF previous_errors > 0
                                THEN (errors_resolved * Scale) \div Max(1, previous_errors) ELSE 0
    IN  update_trend(payload, current_errors, errors_resolved, quality_score,
                     improvement_velocity, IF errors_resolved > 0 THEN 0 ELSE Scale \div 2)

\* a mutation of step 10: RETRY and ROLLBACK change places
decide_swapped(success, can_attempt_after) ==
    IF success THEN "PROMOTE" ELSE IF can_attempt_after THEN "ROLLBACK" ELSE "RETRY"

\* step 10
decide(success, can_attempt_after) ==
    IF success THEN "PROMOTE" ELSE IF can_attempt_after THEN "RETRY" ELSE "ROLLBACK"

(***************************************************************************)
(* AIDebugger.process_error.  `self` holds the orchestrator's objects      *)
(* (policy, breaker, error_chain, historical_scores, tokens); they go out  *)
(* in the outcome, with: raised (None, or the text of the                  *)
(* RuntimeError), the rate-limiter tokens, the breaker, the cascade chain, *)
(* the scorer's history, whether the sandbox ran, how many envelopes went  *)
(* to the memory buffer, and the returned payload.  `world` is what the    *)
(* environment does during the call: the sandbox's result, py_compile's    *)
(* stderr for the patch, and how the classifier subprocess fares.          *)
(***************************************************************************)
Outcome(raised, tokens, breaker, chain, scores, executed, stored, result) ==
    [raised |-> raised, tokens |-> tokens, breaker |-> breaker, error_chain |-> chain,
     historical_scores |-> scores, executed |-> executed, stored |-> stored, result |-> result]

\* steps 7 to 10, once both gates let the patch through
execute_patch_and_record(self, clock, error_type, message, envelope, decision, strategy, conf, world) ==
    LET breaker == self.breaker
        chain == self.error_chain
        scores == self.historical_scores
        sandbox_result == world.sandbox
        success == DictGet(sandbox_result, "success", FALSE)
        env1 == absorb(envelope, truth_flow(rebank_step(envelope, sandbox_result, world))).env
        strategy_outcome == strategy_execute(strategy, message)
        env2 == absorb(env1, trend_step(env1)).env
        breaker1 == record_attempt(breaker, error_type, success)
        scores1 == record_outcome(scores, conf.overall_confidence, success)
        chain1 == IF ~success
                  THEN add_error_to_chain(chain, error_type, message, conf.overall_confidence, 1)
                  ELSE chain
        env3 == AIDebugger_record_attempt(env2, breaker1, success, strategy_outcome.details, clock)
        extras == DictUpdate(decision, [sandbox |-> sandbox_result, strategy |-> strategy_outcome])
    IN  Outcome(None, self.tokens, breaker1, chain1, scores1, TRUE, 1,
                finalize(env3, decide(success, can_attempt(breaker1, error_type).allow),
                         extras, clock))

\* step 1: the patch dict
make_patch(message, patch_code, original_code) ==
    [message |-> message, patched_code |-> patch_code,
     original_code |-> original_code, language |-> "python"]

process_error(self, clock, error_type, message, patch_code, original_code, max_prob, historical, metadata, world) ==
    LET policy == self.policy
        breaker == self.breaker
        chain == self.error_chain
        scores == self.historical_scores
        limit == enforce_rate_limit(self.tokens, clock, policy.rate_limit_per_min)
        patch == make_patch(message, patch_code, original_code)
        wrapped == wrap_patch(patch, clock)
        envelope == IF metadata # EmptyDict THEN merge_metadata(wrapped, metadata) ELSE wrapped
        strategy == recommended_strategy(message, patch_code)
        taxonomy == IF DictHas(metadata, "rebanker_result")
                       /\ DictHas(metadata.rebanker_result, "difficulty")
                    THEN [difficulty |-> metadata.rebanker_result.difficulty] ELSE EmptyDict
        conf == calculate_confidence(scores, max_prob, error_type, historical, taxonomy)
        floor == conf_floor(policy, error_type)
        cb == can_attempt(breaker, error_type)
        cascade == should_stop_attempting(chain)
        decision == [can_attempt |-> cb.allow, cb_reason |-> cb,
                     stop_cascade |-> cascade.stop, cascade_reason |-> cascade.reason,
                     confidence |-> [overall |-> conf.overall_confidence,
                                     syntax |-> conf.syntax_confidence,
                                     logic |-> conf.logic_confidence],
                     policy_floor |-> floor]
    IN  IF limit.raised
        THEN Outcome("Rate limit exceeded for patch attempts", limit.tokens, breaker, chain,
                     scores, FALSE, 0, NoneObj)
        ELSE IF ~SchemaValid(to_json(envelope, clock), load_patch_envelope_schema(world))
        THEN Outcome("PatchEnvelope validation failed", limit.tokens, breaker, chain,
                     scores, FALSE, 0, NoneObj)
        ELSE IF is_risky_patch(patch, policy.risky_keywords) /\ policy.require_human_on_risky
        THEN LET e1 == AIDebugger_record_attempt(envelope, breaker, FALSE,
                                                 <<"Risk", "gate", "human", "review">>, clock)
                 e2 == flag_for_developer(e1, "Risky patch (policy). Human approval required.", None)
             IN  Outcome(None, limit.tokens, breaker, chain, scores, FALSE, 0,
                         finalize(e2, "HUMAN_REVIEW", decision, clock))
        ELSE IF gate_blocked(cb.allow, cascade.stop, conf_for_type(conf, error_type), floor)
        THEN LET e1 == AIDebugger_record_attempt(envelope, breaker, FALSE,
                                                 <<"Gate", "blocked">>, clock)
             IN  Outcome(None, limit.tokens, breaker, chain, scores, FALSE, 0,
                         finalize(e1, "STOP", decision, clock))
        ELSE execute_patch_and_record([self EXCEPT !.tokens = limit.tokens], clock, error_type,
                                      message, envelope, decision, strategy, conf, world)

\* _minimal_tweak on a code of tokens: a control line without its colon
\* gets one; when the message asks for it, one closing token is added for
\* each opening token left unmatched
ColonFixed(line) ==
    CASE line = "if x" -> "if x:"
      [] OTHER -> line

minimal_tweak(code, error_message) ==
    LET msg == LowerText(error_message)
        out == [i \in 1..Len(code) |-> ColonFixed(code[i])]
        Close(o, open_char, close_char) ==
            o \o Repeat(close_char, Max(0, Count(o, open_char) - Count(o, close_char)))
    IN  IF Contains(msg, "missing") \/ Contains(msg, "unexpected end") \/ Contains(msg, "unmatched")
        THEN Close(Close(Close(out, "(", ")"), "{", "}"), "[", "]")
        ELSE out

\* error_delta: no packet has the key "error_code"
error_delta(prev_raw, cur_raw) ==
    IF prev_raw = NoneObj \/ prev_raw = EmptyDict
    THEN [kind |-> "first"]
    ELSE IF cur_raw = NoneObj \/ cur_raw = EmptyDict \/ DictGet(cur_raw, "status", None) = "clean"
    THEN [kind |-> "resolved", from_line |-> DictGet(prev_raw, "line", None),
          from_code |-> DictGet(prev_raw, "error_code", None)]
    ELSE IF DictGet(prev_raw, "error_code", None) = DictGet(cur_raw, "error_code", None)
    THEN [kind |-> "same_error",
          moved |-> (DictGet(prev_raw, "line", None) # DictGet(cur_raw, "line", None)
                     \/ DictGet(prev_raw, "file", None) # DictGet(cur_raw, "file", None)),
          prev_line |-> DictGet(prev_raw, "line", None),
          cur_line |-> DictGet(cur_raw, "line", None)]
    ELSE [kind |-> "mutated",
          from |-> DictGet(prev_raw, "error_code", None),
          to |-> DictGet(cur_raw, "error_code", None),
          prev_line |-> DictGet(prev_raw, "line", None),
          cur_line |-> DictGet(cur_raw, "line", None)]

(***************************************************************************)
(* State.                                                                  *)
(*   self          the AIDebugger: policy, breaker, error_chain (the       *)
(*                 cascade handler's), historical_scores (the scorer's),   *)
(*                 tokens (the rate limiter's)                             *)
(*   now           the wall clock, in milliseconds                         *)
(*   calls         how many operations have been invoked                   *)
(*   sandbox_calls how many times the sandbox has executed a patch         *)
(*   memory        the kinds of the entries of the MemoryBuffer            *)
(*   last          the latest call: its arguments and what it gave back    *)
(*   loop          the frame of attempt_with_backoff                       *)
(*   results       the payloads process_error has returned to the loop     *)
(*   chat          the ChatMessageAdapter's messages                       *)
(*   env           a PatchEnvelope's _data (envelope operations)           *)
(*   db            the cold store: the rows of success_patterns and the    *)
(*                 last id AUTOINCREMENT gave out                          *)
(***************************************************************************)
VARIABLES self, now, calls, sandbox_calls, memory, last, loop, results, chat, env, db

vars == <<self, now, calls, sandbox_calls, memory, last, loop, results, chat, env, db>>

\* a second policy, with budgets that let a lane fail more than once
PermissivePolicy ==
    [HealerPolicy EXCEPT !.max_syntax_attempts = 2, !.max_logic_attempts = 2,
                         !.syntax_error_budget = 1000, !.logic_error_budget = 500,
                         !.rate_limit_per_min = 3, !.require_human_on_risky = FALSE]

Policies == {HealerPolicy, PermissivePolicy}

\* AIDebugger.__init__
AIDebugger(policy) ==
    [policy |-> policy,
     breaker |-> DualCircuitBreaker(policy.max_syntax_attempts, policy.max_logic_attempts,
                                    policy.syntax_error_budget, policy.logic_error_budget),
     error_chain |-> << >>, historical_scores |-> << >>, tokens |-> << >>]

NoCall == [op |-> "none"]
IdleLoop == [pc |-> "idle"]

\* the cold store before anything is saved: no success pattern, no id given out
EmptyDb == [success_patterns |-> << >>, sqlite_sequence |-> 0]

InitCommon ==
    /\ now = 0
    /\ calls = 0
    /\ sandbox_calls = 0
    /\ memory = << >>
    /\ last = NoCall
    /\ loop = IdleLoop
    /\ results = << >>
    /\ chat = << >>
    /\ db = EmptyDb
    /\ env = PatchEnvelope("p1", [patched_code |-> <<"pass">>], EmptyDict)

(***************************************************************************)
(* The circuit breaker on its own: record_attempt and can_attempt called   *)
(* in any order, with any class and outcome; reset is never called.        *)
(***************************************************************************)
MaxBreakerCalls == 6

InitBreaker ==
    /\ \E policy \in Policies : self = AIDebugger(policy)
    /\ InitCommon

BreakerRecord(error_type, success) ==
    /\ calls < MaxBreakerCalls
    /\ self' = [self EXCEPT !.breaker = record_attempt(@, error_type, success)]
    /\ last' = [op |-> "record_attempt", error_type |-> error_type, success |-> success]
    /\ calls' = calls + 1
    /\ UNCHANGED <<now, sandbox_calls, memory, loop, results, chat, env, db>>

BreakerCanAttempt(error_type) ==
    /\ calls < MaxBreakerCalls
    /\ last' = [op |-> "can_attempt", error_type |-> error_type,
                verdict |-> can_attempt(self.breaker, error_type)]
    /\ calls' = calls + 1
    /\ UNCHANGED <<self, now, sandbox_calls, memory, loop, results, chat, env, db>>

NextBreaker ==
    \/ \E error_type \in ErrorType, success \in BOOLEAN : BreakerRecord(error_type, success)
    \/ \E error_type \in ErrorType : BreakerCanAttempt(error_type)

SpecBreaker == InitBreaker /\ [][NextBreaker]_vars

\* C6: without reset, circuit_state only moves forward along
\* CLOSED -> {SYNTAX_OPEN, LOGIC_OPEN} -> PERMANENTLY_OPEN: it never returns to
\* CLOSED, never leaves PERMANENTLY_OPEN, and never passes from SYNTAX_OPEN to
\* LOGIC_OPEN or back.
C6_OneWayWalk ==
    [][LET a == self.breaker.circuit_state
           b == self'.breaker.circuit_state
       IN  \/ a = b
           \/ a = "CLOSED"
           \/ a \in {"SYNTAX_OPEN", "LOGIC_OPEN"} /\ b = "PERMANENTLY_OPEN"]_vars

\* a lane is exhausted once it has used its attempts or overspent its budget
SyntaxExhausted(b) ==
    \/ b.syntax_attempts >= b.syntax_max_attempts
    \/ (b.syntax_attempts > 0 /\ RateExceeds(b.syntax_errors, b.syntax_attempts, b.syntax_error_budget))

LogicExhausted(b) ==
    \/ b.logic_attempts >= b.logic_max_attempts
    \/ (b.logic_attempts > 0 /\ RateExceeds(b.logic_errors, b.logic_attempts, b.logic_error_budget))

\* C8: whenever both lanes are exhausted after a sequence of record_attempt
\* calls, circuit_state is PERMANENTLY_OPEN, in whatever order they got there.
C8_BothExhaustedPermanent ==
    (SyntaxExhausted(self.breaker) /\ LogicExhausted(self.breaker))
        => self.breaker.circuit_state = "PERMANENTLY_OPEN"

(***************************************************************************)
(* The cascade handler on its own: entries appended with any class and     *)
(* confidence, should_stop_attempting consulted at any time.  last keeps   *)
(* whether should_stop_attempting has answered true since the chain was    *)
(* last reset (seen_stop), and whether it did so for the depth             *)
(* (seen_depth).                                                           *)
(***************************************************************************)
MaxChain == 6

\* the strings the severity table knows, and an ErrorType member as the
\* orchestrator passes it
CascadeClasses == {"syntax", "logic", "SYNTAX"}
CascadeConfidences == {300000, 500000}

InitCascade ==
    /\ self = AIDebugger(HealerPolicy)
    /\ InitCommon

SeenStop == DictGet(last, "seen_stop", FALSE)
SeenDepth == DictGet(last, "seen_depth", FALSE)

CascadeAdd(error_type, confidence_score) ==
    /\ Len(self.error_chain) < MaxChain
    /\ self' = [self EXCEPT !.error_chain =
                   add_error_to_chain(@, error_type, <<"failed">>, confidence_score, Len(@) + 1)]
    /\ last' = [op |-> "add_error_to_chain", seen_stop |-> SeenStop, seen_depth |-> SeenDepth]
    /\ UNCHANGED <<now, calls, sandbox_calls, memory, loop, results, chat, env, db>>

CascadeShouldStop ==
    /\ LET verdict == should_stop_attempting(self.error_chain)
       IN  last' = [op |-> "should_stop_attempting", verdict |-> verdict,
                    seen_stop |-> (SeenStop \/ verdict.stop),
                    seen_depth |-> (SeenDepth \/ verdict.reason = "Cascade depth exceeded")]
    /\ UNCHANGED <<self, now, calls, sandbox_calls, memory, loop, results, chat, env, db>>

CascadeReset ==
    /\ self.error_chain # << >>
    /\ self' = [self EXCEPT !.error_chain = reset_cascade(@)]
    /\ last' = [op |-> "reset_cascade", seen_stop |-> FALSE, seen_depth |-> FALSE]
    /\ UNCHANGED <<now, calls, sandbox_calls, memory, loop, results, chat, env, db>>

NextCascade ==
    \/ \E error_type \in CascadeClasses, confidence_score \in CascadeConfidences :
          CascadeAdd(error_type, confidence_score)
    \/ CascadeShouldStop
    \/ CascadeReset

SpecCascade == InitCascade /\ [][NextCascade]_vars

\* C9: once should_stop_attempting has returned true, it returns true after
\* every later append to the chain, as long as reset_cascade is not called.
C9_StopIsSticky ==
    SeenStop => should_stop_attempting(self.error_chain).stop

(***************************************************************************)
(* The envelope on its own: the operations that write its success flag,    *)
(* with the ones that flag it and append attempts.                         *)
(***************************************************************************)
MaxEnvelopeOps == 4

InitEnvelope ==
    /\ self = AIDebugger(HealerPolicy)
    /\ InitCommon

EnvStep(op, arg, new_env) ==
    /\ calls < MaxEnvelopeOps
    /\ env' = new_env
    /\ last' = [op |-> op, arg |-> arg]
    /\ calls' = calls + 1
    /\ UNCHANGED <<self, now, sandbox_calls, memory, loop, results, chat, db>>

\* with env.mutable_payload() as payload: mark_success(payload, success)
EnvHelperMarkSuccess(success) ==
    EnvStep("helpers.mark_success", success, absorb(env, mark_success(env, success)).env)

\* env.mark_success(success)
EnvMarkSuccess(success) ==
    EnvStep("PatchEnvelope.mark_success", success, PatchEnvelope_mark_success(env, success))

\* env.success = success
EnvSuccessSetter(success) ==
    EnvStep("success.setter", success, PatchEnvelope_mark_success(env, success))

\* with env.mutable_payload() as payload: payload["success"] = success
EnvPayloadWrite(success) ==
    EnvStep("mutable_payload", success, absorb(env, DictSet(env, "success", success)).env)

\* with env.mutable_payload() as payload: append_attempt(payload, success=...)
EnvAppendAttempt(success) ==
    EnvStep("helpers.append_attempt", success,
            absorb(env, append_attempt(env, success, << >>, None, NoInt, now)).env)

EnvFlag ==
    EnvStep("flag_for_developer", TRUE, flag_for_developer(env, "review", "risky"))

EnvClearFlag ==
    EnvStep("clear_developer_flag", TRUE, clear_developer_flag(env))

\* with env.mutable_payload() as payload: set_envelope_timestamp(payload, iso)
EnvSetTimestamp(iso) ==
    EnvStep("helpers.set_envelope_timestamp", iso, absorb(env, set_envelope_timestamp(env, iso)).env)

\* with env.mutable_payload() as payload: add_timeline_entry(payload, attempt=...)
EnvAddTimeline ==
    EnvStep("helpers.add_timeline_entry", TRUE,
            absorb(env, add_timeline_entry(env, Len(env.timeline) + 1, None, "continue", now)).env)

EnvSetDeveloperMessage(message) ==
    EnvStep("set_developer_message", message, set_developer_message(env, message))

EnvSetDeveloperReason(reason) ==
    EnvStep("set_developer_reason", reason, set_developer_reason(env, reason))

\* with env.mutable_payload() as payload: merge_confidence(payload, logic=...)
EnvMergeConfidence(logic) ==
    EnvStep("helpers.merge_confidence", logic, absorb(env, merge_confidence(env, NoInt, logic, NoInt)).env)

\* with env.mutable_payload() as payload: set_envelope_hash(payload)
EnvSetHash ==
    EnvStep("helpers.set_envelope_hash", TRUE, absorb(env, set_envelope_hash(env)).env)

\* the keys of the snapshot a mutable_payload block receives, in dict order
KeyOrder ==
    <<"patch_id", "patch_data", "metadata", "attempts", "confidenceComponents", "breakerState",
      "cascadeDepth", "resourceUsage", "flagged_for_developer", "developer_message",
      "developer_flag_reason", "success", "trendMetadata", "counters", "timeline", "envelopeHash">>

payload_keys(e) == KeyOrder \o (IF DictHas(e, "timestamp") THEN <<"timestamp">> ELSE << >>)

\* the blocks that alter patch_id or patch_data: the block sets payload["success"]
\* = True and gives block.write a new value, by assignment or (reinsert) by
\* payload.pop(key) followed by payload[key] = value, which moves the key to
\* the end of the dict
Blocks == [write : {"patch_id", "patch_data"}, reinsert : BOOLEAN]

EnvPayloadBlock(block) ==
    /\ calls < MaxEnvelopeOps
    /\ LET altered == IF block.write = "patch_id" THEN "p2" ELSE [patched_code |-> <<"evil">>]
           mutated == DictSet(DictSet(env, "success", TRUE), block.write, altered)
           keys == IF block.reinsert
                   THEN SelectSeq(payload_keys(env), LAMBDA k : k # block.write) \o <<block.write>>
                   ELSE payload_keys(env)
           out == absorb_keys(env, mutated, keys)
       IN  /\ env' = out.env
           /\ last' = [op |-> "mutable_payload_block", arg |-> block, raised |-> out.raised]
    /\ calls' = calls + 1
    /\ UNCHANGED <<self, now, sandbox_calls, memory, loop, results, chat, db>>

NextEnvelope ==
    \/ \E iso \in {1, 2} : EnvSetTimestamp(iso)
    \/ EnvAddTimeline
    \/ \E message \in {"review", "urgent"} : EnvSetDeveloperMessage(message)
    \/ \E reason \in {"risky", "manual"} : EnvSetDeveloperReason(reason)
    \/ \E logic \in {500000, 900000} : EnvMergeConfidence(logic)
    \/ EnvSetHash
    \/ \E block \in Blocks : EnvPayloadBlock(block)
    \/ \E success \in BOOLEAN : EnvHelperMarkSuccess(success)
    \/ \E success \in BOOLEAN : EnvMarkSuccess(success)
    \/ \E success \in BOOLEAN : EnvSuccessSetter(success)
    \/ \E success \in BOOLEAN : EnvPayloadWrite(success)
    \/ \E success \in BOOLEAN : EnvAppendAttempt(success)
    \/ EnvFlag
    \/ EnvClearFlag

SpecEnvelope == InitEnvelope /\ [][NextEnvelope]_vars

\* C10: once the envelope's success is true, no envelope operation (the
\* helper mark_success, PatchEnvelope.mark_success, the success setter, a
\* mutable_payload block) leaves it false.
C10_SuccessLatch ==
    [][env.success = TRUE => env'.success = TRUE]_vars

\* the operations that write only volatile fields
VolatileOps ==
    {"helpers.append_attempt", "helpers.add_timeline_entry", "helpers.set_envelope_timestamp",
     "set_developer_message", "set_developer_reason"}

\* C11: the stable envelope hash depends only on the non-volatile fields:
\* appending to attempts or timeline, or changing timestamp, developer_message
\* or developer_flag_reason leaves the recomputed hash as it was, and changing
\* confidenceComponents changes it.
C11_StableHash ==
    [][/\ (calls' = calls + 1 /\ last'.op \in VolatileOps)
            => compute_stable_envelope_hash(env') = compute_stable_envelope_hash(env)
       /\ (calls' = calls + 1 /\ last'.op = "helpers.merge_confidence"
              /\ env'.confidenceComponents # env.confidenceComponents)
            => compute_stable_envelope_hash(env') # compute_stable_envelope_hash(env)]_vars

\* C11 witness: a hash stored before an attempt and a timeline entry were
\* appended is still the hash of the envelope
C11_Witness ==
    /\ last.op = "helpers.add_timeline_entry"
    /\ Len(env.timeline) = 1
    /\ Len(env.attempts) = 1
    /\ env.confidenceComponents # EmptyDict
    /\ env.envelopeHash = compute_stable_envelope_hash(env)

\* C12: no operation changes patch_id or patch_data, and a mutable_payload
\* block that alters either of them raises ValueError and leaves every field
\* of the envelope as it was before the block.
C12_IdentityImmutable ==
    [][/\ env'.patch_id = env.patch_id
       /\ env'.patch_data = env.patch_data
       /\ (calls' = calls + 1 /\ last'.op = "mutable_payload_block")
            => (last'.raised # None /\ env' = env)]_vars

(***************************************************************************)
(* The orchestrator: process_error called directly and through             *)
(* attempt_with_backoff, the clock advancing in between.                   *)
(***************************************************************************)
MaxCalls == 4
MaxTicks == 1
TickStep == 60 * 1000
memory_max_size == 500

\* MemoryBuffer.add_outcome, n times, for entries of one kind
add_outcome(buffer, kind, n) ==
    LET a == buffer \o Repeat(kind, n)
    IN  IF Len(a) > memory_max_size THEN SubSeq(a, Len(a) - memory_max_size + 1, Len(a)) ELSE a

\* what a caller hands in: the class, the error message, the candidate patch,
\* the code it replaces, max(softmax(logits)) and the metadata
CleanPatch == [message |-> <<"SyntaxError:", "missing", "parenthesis">>, patch_code |-> <<"if x", "f(">>, original_code |-> <<"pass">>]
RiskyPatch == [message |-> <<"Undefined", "name">>, patch_code |-> <<"DATABASE_SCHEMA_CHANGE">>, original_code |-> <<"pass">>]

Incident(error_type, patch, max_prob) ==
    [error_type |-> error_type, message |-> patch.message, patch_code |-> patch.patch_code,
     original_code |-> patch.original_code, max_prob |-> max_prob]

Incidents ==
    {Incident("SYNTAX", CleanPatch, 900000), Incident("LOGIC", CleanPatch, 900000),
     Incident("LOGIC", CleanPatch, 700000), Incident("SECURITY", CleanPatch, 900000),
     Incident("SYNTAX", RiskyPatch, 700000), Incident("SECURITY", RiskyPatch, 900000)}

CallMetadata == {EmptyDict}

\* SandboxExecution.execute_patch's result, py_compile's stderr, the classifier subprocess
Traceback == [kind |-> "traceback", file |-> "patch.py", line |-> "10", column |-> None, text |-> "NameError"]
PlainFailure == [kind |-> "plain", file |-> None, line |-> None, column |-> None, text |-> "Resource limits exceeded"]
SyntaxStderr == [kind |-> "syntax", file |-> "tmp.py", line |-> "3", column |-> "4", text |-> "SyntaxError: invalid syntax"]

Worlds ==
    {[sandbox |-> [success |-> TRUE], compile |-> NoBlob, tool |-> "ok"],
     [sandbox |-> [success |-> FALSE], compile |-> SyntaxStderr, tool |-> "ok"],
     [sandbox |-> [success |-> FALSE, error_message |-> Traceback], compile |-> NoBlob, tool |-> "ok"],
     [sandbox |-> [success |-> FALSE, error_message |-> PlainFailure], compile |-> NoBlob, tool |-> "ok"]}

\* opts of attempt_with_backoff
Opts == {EmptyDict, [maxAttempts |-> 0], [maxAttempts |-> 2, minMs |-> 1000, maxMs |-> 1000]}

\* random.uniform(0.8, 1.2), in tenths
Jitters == {8, 12}

Init ==
    /\ \E policy \in Policies : self = AIDebugger(policy)
    /\ InitCommon

Running == loop.pc = "running"

\* the objects of self after a call
SelfAfter(out) ==
    [self EXCEPT !.breaker = out.breaker, !.error_chain = out.error_chain,
                 !.historical_scores = out.historical_scores, !.tokens = out.tokens]

\* the call as an observer sees it; syntax_run counts the calls so far when
\* every one of them was a syntax-class call with high logits and a clean
\* patch whose sandbox run, if it came to one, failed (0 - 1 otherwise)
CallRecord(by, args, world, out) ==
    [op |-> "process_error", by |-> by, args |-> args,
     world |-> IF out.executed THEN world ELSE NoneObj,
     raised |-> out.raised, executed |-> out.executed, result |-> out.result,
     syntax_run |-> IF /\ DictGet(last, "syntax_run", 0) = calls
                       /\ args.error_type = "SYNTAX"
                       /\ args.max_prob >= 900000
                       /\ args.patch_code = CleanPatch.patch_code
                       /\ (out.executed => ~world.sandbox.success)
                    THEN calls + 1 ELSE NoInt]

Tick ==
    /\ ~Running
    /\ now + TickStep <= MaxTicks * TickStep
    /\ now' = now + TickStep
    /\ UNCHANGED <<self, calls, sandbox_calls, memory, last, loop, results, chat, env, db>>

\* a caller invokes process_error
ProcessError(incident, metadata, world) ==
    /\ ~Running
    /\ calls < MaxCalls
    /\ LET args == [error_type |-> incident.error_type, message |-> incident.message,
                    patch_code |-> incident.patch_code, original_code |-> incident.original_code,
                    max_prob |-> incident.max_prob, historical |-> EmptyDict, metadata |-> metadata]
       IN  \E out \in {process_error(self, now, incident.error_type, incident.message,
                                     incident.patch_code, incident.original_code,
                                     incident.max_prob, EmptyDict, metadata, world)} :
              /\ self' = SelfAfter(out)
              /\ sandbox_calls' = sandbox_calls + (IF out.executed THEN 1 ELSE 0)
              /\ memory' = add_outcome(memory, "envelope", out.stored)
              /\ last' = CallRecord("caller", args, world, out)
    /\ calls' = calls + 1
    /\ UNCHANGED <<now, loop, results, chat, env, db>>

\* ChatMessageAdapter.add_message: the message joins the history and a copy
\* goes to the memory buffer
add_message(messages, role, content, phase, clock) ==
    Append(messages, [role |-> role, content |-> content,
                      metadata |-> [phase |-> phase], timestamp |-> clock])

\* the packet a frame's prev_raw points at: the rebanker_raw inside a returned
\* payload (0 when prev_raw is None)
RawOf(idx) ==
    IF idx = 0 THEN NoneObj
    ELSE DictGet(results[idx].envelope.metadata, "rebanker_raw", NoneObj)

\* attempt_with_backoff up to its loop: opts, the chat adapter, the system prompt
StartBackoff(incident, opts) ==
    /\ loop.pc = "idle"
    /\ calls + Max(1, DictGet(opts, "maxAttempts", 3)) <= MaxCalls
    /\ loop' = [pc |-> "running", error_type |-> incident.error_type, message |-> incident.message,
                original_code |-> incident.original_code, max_prob |-> incident.max_prob,
                max_attempts |-> Max(1, DictGet(opts, "maxAttempts", 3)),
                min_ms |-> Max(0, DictGet(opts, "minMs", 500)),
                max_ms |-> Max(Max(0, DictGet(opts, "minMs", 500)), DictGet(opts, "maxMs", 1500)),
                attempt |-> 1, current_patch |-> incident.patch_code, opts |-> opts,
                cancelled |-> FALSE,
                prev_raw |-> 0, cur_raw |-> 0, wait_ms |-> 0, returned |-> 0]
    /\ chat' = add_message(<< >>, "system", [type |-> "system_prompt"], "init", now)
    /\ memory' = add_outcome(memory, "chat_message", 1)
    /\ last' = [op |-> "attempt_with_backoff"]
    /\ UNCHANGED <<self, now, calls, sandbox_calls, results, env, db>>

\* the hint of rebanker_previous: the line, the column when there is one, the message
hint(prev_raw) ==
    <<"Previous patch failed at line", DictGet(prev_raw, "line", None),
      IF DictGet(prev_raw, "column", None) # None THEN DictGet(prev_raw, "column", None) ELSE "",
      DictGet(prev_raw, "message", None)>>

\* a mutation of the user message: the packet's code is looked up as error_code
UserMessage_error_code_key(prev_raw) ==
    LET base == [type |-> "attempt.start", attempt |-> loop.attempt,
                 error_type |-> loop.error_type, message |-> loop.message,
                 last_patch |-> loop.current_patch, language |-> "python"]
    IN  IF loop.attempt > 1 /\ prev_raw # NoneObj /\ prev_raw # EmptyDict
        THEN DictSet(base, "rebanker_previous",
                     [file |-> DictGet(prev_raw, "file", None),
                      line |-> DictGet(prev_raw, "line", None),
                      column |-> DictGet(prev_raw, "column", None),
                      error_code |-> DictGet(prev_raw, "error_code", None),
                      error_message |-> DictGet(prev_raw, "message", None),
                      severity |-> DictGet(prev_raw, "severity", None),
                      hint |-> hint(prev_raw)])
        ELSE base

\* attempt.start, with the previous packet from the second attempt on
UserMessage(prev_raw) ==
    LET base == [type |-> "attempt.start", attempt |-> loop.attempt,
                 error_type |-> loop.error_type, message |-> loop.message,
                 last_patch |-> loop.current_patch, language |-> "python"]
    IN  IF loop.attempt > 1 /\ prev_raw # NoneObj /\ prev_raw # EmptyDict
        THEN DictSet(base, "rebanker_previous",
                     [file |-> DictGet(prev_raw, "file", None),
                      line |-> DictGet(prev_raw, "line", None),
                      column |-> DictGet(prev_raw, "column", None),
                      error_code |-> DictGet(prev_raw, "code", None),
                      error_message |-> DictGet(prev_raw, "message", None),
                      severity |-> DictGet(prev_raw, "severity", None),
                      hint |-> hint(prev_raw)])
        ELSE base

\* 2 ** n
Pow2(n) == IF n <= 0 THEN 1 ELSE IF n = 1 THEN 2 ELSE IF n = 2 THEN 4 ELSE 8

\* the decisions that end the loop
final_action_without_rollback(action) == action \in {"PROMOTE", "HUMAN_REVIEW"}

final_action(action) == action \in {"PROMOTE", "ROLLBACK", "HUMAN_REVIEW"}

\* what one pass does with the outcome of its process_error call
AttemptOutcome(prev_raw, chat1, args, world, jitter, out) ==
    LET envelope_meta == out.result.envelope.metadata
        cur_raw == DictGet(envelope_meta, "rebanker_raw", NoneObj)
        delta == error_delta(prev_raw, cur_raw)
        result == [out.result EXCEPT !.envelope.metadata = DictSet(@, "delta_from_prev", delta)]
        idx == Len(results) + 1
        chat2 == add_message(chat1, "tool",
                             [type |-> "patch_envelope", attempt |-> loop.attempt,
                              envelope |-> idx, action |-> result.action, delta |-> delta],
                             "result", now)
    IN  /\ self' = SelfAfter(out)
        /\ sandbox_calls' = sandbox_calls + (IF out.executed THEN 1 ELSE 0)
        /\ last' = CallRecord("attempt_with_backoff", args, world, out)
        /\ IF out.raised # None
           THEN /\ loop' = [loop EXCEPT !.pc = "raised"]
                /\ chat' = chat1
                /\ memory' = add_outcome(memory, "chat_message", 1)
                /\ results' = results
           ELSE IF rebanker_violated(envelope_meta)
           THEN /\ loop' = [loop EXCEPT !.pc = "fatal"]
                /\ chat' = add_message(chat1, "tool",
                                       [type |-> "immutability_violation",
                                        attempt |-> loop.attempt], "error", now)
                /\ memory' = add_outcome(add_outcome(add_outcome(memory, "chat_message", 1),
                                                     "envelope", out.stored), "chat_message", 1)
                /\ results' = results
           ELSE /\ results' = Append(results, result)
                /\ IF final_action(result.action)
                   THEN /\ chat' = add_message(chat2, "tool",
                                               [type |-> "final_decision", decision |-> result.action,
                                                attempt |-> loop.attempt, delta |-> delta],
                                               "final", now)
                        /\ memory' = add_outcome(add_outcome(add_outcome(memory, "chat_message", 1),
                                                             "envelope", out.stored), "chat_message", 3)
                        /\ loop' = [loop EXCEPT !.pc = "done", !.cur_raw = idx, !.returned = idx]
                   ELSE IF result.action \in {"RETRY", "PAUSE_AND_BACKOFF"}
                   THEN LET backoff_ms == Min(loop.max_ms, loop.min_ms * Pow2(loop.attempt - 1))
                            wait_ms == (backoff_ms * jitter) \div 10
                        IN  /\ chat' = add_message(chat2, "tool",
                                                   [type |-> "backoff", wait_ms |-> wait_ms,
                                                    attempt |-> loop.attempt], "backoff", now)
                            /\ memory' = add_outcome(add_outcome(add_outcome(memory, "chat_message", 1),
                                                                 "envelope", out.stored), "chat_message", 3)
                            /\ loop' = [loop EXCEPT !.pc = "sleep", !.cur_raw = idx, !.wait_ms = wait_ms]
                   ELSE /\ chat' = chat2
                        /\ memory' = add_outcome(add_outcome(add_outcome(memory, "chat_message", 1),
                                                             "envelope", out.stored), "chat_message", 2)
                        /\ loop' = IF loop.attempt < loop.max_attempts
                                   THEN [loop EXCEPT !.attempt = @ + 1, !.cur_raw = idx]
                                   ELSE [loop EXCEPT !.pc = "done", !.cur_raw = idx, !.returned = idx]

\* one pass of the loop body, from the user message to the sleep, the return,
\* the raise, or the next pass
Attempt(world, jitter) ==
    /\ Running
    /\ LET prev_raw == RawOf(loop.prev_raw)
           chat1 == add_message(chat, "user", UserMessage(prev_raw), "attempt", now)
           args == [error_type |-> loop.error_type, message |-> loop.message,
                    patch_code |-> loop.current_patch, original_code |-> loop.original_code,
                    max_prob |-> loop.max_prob, historical |-> [attempt |-> loop.attempt],
                    metadata |-> [attempt |-> loop.attempt]]
       IN  \E out \in {process_error(self, now, loop.error_type, loop.message,
                                     loop.current_patch, loop.original_code, loop.max_prob,
                                     [attempt |-> loop.attempt], [attempt |-> loop.attempt],
                                     world)} : AttemptOutcome(prev_raw, chat1, args, world, jitter, out)
    /\ calls' = calls + 1
    /\ UNCHANGED <<now, env, db>>

\* the sleep ends: the tweak, prev_raw = cur_raw, and the next pass or the return
Wake ==
    /\ loop.pc = "sleep"
    /\ now' = now + loop.wait_ms
    /\ loop' = [loop EXCEPT !.current_patch = minimal_tweak(loop.current_patch, loop.message),
                            !.prev_raw = loop.cur_raw,
                            !.attempt = IF loop.attempt < loop.max_attempts THEN @ + 1 ELSE @,
                            !.pc = IF loop.attempt < loop.max_attempts THEN "running" ELSE "done",
                            !.returned = IF loop.attempt < loop.max_attempts THEN 0 ELSE loop.cur_raw]
    /\ UNCHANGED <<self, calls, sandbox_calls, memory, last, results, chat, env, db>>

\* the task running attempt_with_backoff is cancelled while it waits in
\* asyncio.sleep: CancelledError is raised at the await, nothing in the
\* coroutine catches it, and it leaves attempt_with_backoff
Cancel ==
    /\ loop.pc = "sleep"
    /\ loop' = [loop EXCEPT !.pc = "cancelled", !.cancelled = TRUE]
    /\ UNCHANGED <<self, now, calls, sandbox_calls, memory, last, results, chat, env, db>>

\* the LLM writes its summary into rebanker_interpreted of the envelope the
\* last attempt returned, the one field of the truth-flow block it may write
LlmSummary == "LLM summary"
MaxSummaries == 1

Summaries ==
    Cardinality({i \in 1..Len(results) :
                    DictGet(results[i].envelope.metadata, "rebanker_interpreted", None) = LlmSummary})

Interpret ==
    /\ loop.pc = "sleep"
    /\ Summaries < MaxSummaries
    /\ loop.cur_raw \in 1..Len(results)
    /\ DictGet(results[loop.cur_raw].envelope.metadata, "rebanker_interpreted", LlmSummary) = None
    /\ results' = [results EXCEPT ![loop.cur_raw].envelope.metadata.rebanker_interpreted = LlmSummary]
    /\ UNCHANGED <<self, now, calls, sandbox_calls, memory, last, loop, chat, env, db>>

\* whoever holds the envelope the last attempt returned (it travels by
\* reference in the chat history) rewrites its rebanker_raw while the loop
\* sleeps, leaving the hash
Tamper(idx) ==
    /\ loop.pc = "sleep"
    /\ idx \in 1..Len(results)
    /\ idx = loop.cur_raw
    /\ DictHas(results[idx].envelope.metadata, "rebanker_raw")
    /\ DictGet(results[idx].envelope.metadata.rebanker_raw, "line", None) # "999"
    /\ results' = [results EXCEPT ![idx].envelope.metadata.rebanker_raw = DictSet(@, "line", "999")]
    /\ UNCHANGED <<self, now, calls, sandbox_calls, memory, last, loop, chat, env, db>>

Next ==
    \/ Tick
    \/ \E incident \in Incidents, metadata \in CallMetadata, world \in Worlds :
          ProcessError(incident, metadata, world)

Spec == Init /\ [][Next]_vars

\* a step that is a process_error call which got past the rate limiter and
\* the schema validation
AdmittedCall == calls' = calls + 1 /\ last'.op = "process_error" /\ last'.raised = None

\* the orchestrator's breaker, cascade chain, scorer history and sandbox are
\* as they were before the step
NothingRecorded ==
    /\ ~last'.executed
    /\ sandbox_calls' = sandbox_calls
    /\ self'.breaker = self.breaker
    /\ self'.error_chain = self.error_chain
    /\ self'.historical_scores = self.historical_scores

\* the risk gate's condition, for the arguments of the call being made
RiskGateFires ==
    /\ self.policy.require_human_on_risky
    /\ \E i \in 1..Len(self.policy.risky_keywords) :
          Contains(LowerText(patch_json(make_patch(last'.args.message, last'.args.patch_code,
                                                   last'.args.original_code))),
                   self.policy.risky_keywords[i])

C18_RiskGateReason ==
    (last.op = "process_error" /\ last.raised = None /\ last.result.action = "HUMAN_REVIEW")
        => /\ last.result.envelope.flagged_for_developer
           /\ last.result.envelope.developer_flag_reason # None

\* the class confidence of the call being made, computed on the state before it
ClassConfidenceBelowFloor ==
    LET a == last'.args
        taxonomy == IF DictHas(a.metadata, "rebanker_result")
                    THEN [difficulty |-> a.metadata.rebanker_result.difficulty] ELSE EmptyDict
        conf == calculate_confidence(self.historical_scores, a.max_prob, a.error_type,
                                     a.historical, taxonomy)
    IN  conf_for_type(conf, a.error_type) < conf_floor(self.policy, a.error_type)

C7_SyntaxRun ==
    LET n == DictGet(last, "syntax_run", 0)
    IN  (self.policy = HealerPolicy /\ n >= 1 /\ last.raised = None)
           => /\ (n <= 3 => last.result.extras.can_attempt /\ last.executed)
              /\ (n = 3 => last.result.action = "ROLLBACK")
              /\ (n = 4 => /\ ~last.result.extras.can_attempt
                           /\ last.result.extras.cb_reason.reason = "Syntax attempts exceeded"
                           /\ self.breaker.circuit_state = "SYNTAX_OPEN")

(***************************************************************************)
(* attempt_with_backoff: one session on a debugger that has served at most *)
(* MaxPriorCalls calls before it.                                          *)
(***************************************************************************)
MaxPriorCalls == 1

PriorCall(incident, world) ==
    /\ loop.pc = "idle"
    /\ calls < MaxPriorCalls
    /\ ProcessError(incident, EmptyDict, world)

NextLoop ==
    \/ \E incident \in Incidents, world \in Worlds : PriorCall(incident, world)
    \/ \E incident \in Incidents, opts \in Opts : StartBackoff(incident, opts)
    \/ \E world \in Worlds, jitter \in Jitters : Attempt(world, jitter)
    \/ Wake
    \/ \E idx \in 1..MaxCalls : Tamper(idx)
    \/ Cancel

SpecLoop == Init /\ [][NextLoop]_vars

\* the latest call was made by the retry loop and returned
LoopReturned ==
    last.op = "process_error" /\ last.by = "attempt_with_backoff" /\ last.raised = None

Tampered(i) == i <= Len(results) /\ DictGet(RawOf(i), "line", None) = "999"

\* C2: when the rebanker_raw of the envelope of attempt 1 is rewritten between
\* the attempts, its hash left alone, the loop fails the hash check at attempt
\* 2: it ends in the fatal error with an immutability_violation tool message
\* in the chat history, and makes no further attempt.
C2_TamperingDetected ==
    (Tampered(1) /\ LoopReturned /\ last.args.metadata.attempt >= 2)
        => /\ loop.pc = "fatal"
           /\ \E i \in 1..Len(chat) : chat[i].content.type = "immutability_violation"

\* the process_error calls the loop has made: one follows each user message
Invocations == Cardinality({i \in 1..Len(chat) : chat[i].role = "user"})

FinalActions == {"PROMOTE", "ROLLBACK", "HUMAN_REVIEW"}

\* attempt_with_backoff is over: it returned, or an error left it
LoopEnded == loop.pc \in {"done", "raised", "fatal", "cancelled"}

\* a pass is the one step that makes a call while the loop runs, and it can
\* be taken exactly when the loop runs: this is weak fairness of Attempt with
\* its enabling condition written out
PassFair == []<>(~Running) \/ []<><<Running /\ calls' = calls + 1>>_vars

\* the retry loop with its scheduling: a pass runs to completion on the
\* caller's task, and asyncio.sleep ends after wait_ms
SpecLoopLive == SpecLoop /\ PassFair /\ WF_vars(Wake)

LoopBounds ==
    /\ loop.pc # "idle"
        => /\ loop.max_attempts = Max(1, DictGet(loop.opts, "maxAttempts", 3))
           /\ Invocations <= loop.max_attempts
           /\ \A i \in 1..(Len(results) - 1) : results[i].action \notin FinalActions
    /\ LoopEnded => Invocations >= 1
    /\ (LoopReturned /\ last.result.action \in FinalActions /\ loop.pc # "fatal")
        => loop.pc = "done"
    /\ loop.pc = "done"
        => /\ LoopReturned
           /\ loop.returned = Len(results)
           /\ results[loop.returned].action = last.result.action
           /\ results[loop.returned].envelope.patch_id = last.result.envelope.patch_id
           /\ (last.result.action \notin FinalActions => Invocations = loop.max_attempts)

\* C14: attempt_with_backoff always terminates; it calls process_error at
\* least once and at most max(1, maxAttempts) times, returns at the first
\* PROMOTE, ROLLBACK or HUMAN_REVIEW, and otherwise returns the result of the
\* last call.
C14_Terminates == []LoopBounds /\ ((loop.pc = "running") ~> LoopEnded)

\* C14 witness: the loop has used up its two attempts without a final
\* decision and returned the second result
C14_Witness ==
    /\ loop.pc = "done"
    /\ Invocations = 2
    /\ loop.max_attempts = 2
    /\ last.result.action \notin FinalActions

\* C15: when attempt_with_backoff is cancelled while it sleeps between
\* attempts, it returns the last envelope with action STOP; the cancellation
\* does not leave it as an error.
C15_CancelReturnsStop ==
    (loop.pc # "idle" /\ loop.cancelled)
        => /\ loop.pc = "done"
           /\ loop.returned = Len(results)
           /\ results[loop.returned].action = "STOP"

\* the retry loop with the LLM reading the chat history and writing its
\* summaries between the attempts
NextChat ==
    \/ \E incident \in Incidents, opts \in Opts : StartBackoff(incident, opts)
    \/ \E world \in Worlds, jitter \in Jitters : Attempt(world, jitter)
    \/ Wake
    \/ Interpret

SpecChat == Init /\ [][NextChat]_vars

\* the keys of an attempt.start message and of its rebanker_previous
UserKeys == {"type", "attempt", "error_type", "message", "last_patch", "language", "rebanker_previous"}
PreviousKeys == {"file", "line", "column", "error_code", "error_message", "severity", "hint"}

\* the user message of attempt k carries the packet of the result of attempt k - 1
CarriesPacket(content, packet) ==
    /\ DictHas(content, "rebanker_previous")
    /\ LET previous == content.rebanker_previous
       IN  /\ previous.file = DictGet(packet, "file", None)
           /\ previous.line = DictGet(packet, "line", None)
           /\ previous.column = DictGet(packet, "column", None)
           /\ previous.error_code = DictGet(packet, "code", None)
           /\ previous.error_message = DictGet(packet, "message", None)
           /\ previous.severity = DictGet(packet, "severity", None)

\* nothing in a user message is the LLM's summary
FreeOfInterpreted(content) ==
    /\ DOMAIN content \subseteq UserKeys
    /\ DictHas(content, "rebanker_previous")
        => LET previous == content.rebanker_previous
           IN  /\ DOMAIN previous = PreviousKeys
               /\ \A key \in PreviousKeys \ {"hint"} : previous[key] # LlmSummary
               /\ \A i \in 1..Len(previous.hint) : previous.hint[i] # LlmSummary

\* C16: for every attempt k > 1 whose preceding attempt produced a diagnostic
\* packet, the user message of attempt k carries the file, line, column, code,
\* message and severity of the rebanker_raw of attempt k - 1; no user message
\* carries content of rebanker_interpreted.
C16_PreviousPacketOnly ==
    \A i \in 1..Len(chat) :
        chat[i].role = "user"
            => LET content == chat[i].content
                   k == content.attempt
               IN  /\ (k > 1 /\ k - 1 <= Len(results)
                        /\ DictHas(results[k - 1].envelope.metadata, "rebanker_raw")
                        /\ RawOf(k - 1) # EmptyDict)
                           => CarriesPacket(content, RawOf(k - 1))
                   /\ FreeOfInterpreted(content)

\* C16 witness: attempt 2 has sent its user message after attempt 1 produced
\* a packet with a line, and the LLM had written its summary in between
C16_Witness ==
    /\ Len(results) >= 1
    /\ DictGet(RawOf(1), "line", None) # None
    /\ DictGet(results[1].envelope.metadata, "rebanker_interpreted", None) = LlmSummary
    /\ \E i \in 1..Len(chat) : chat[i].role = "user" /\ chat[i].content.attempt = 2

(***************************************************************************)
(* error_delta on its own: two packets as the classifier and process_error *)
(* emit them (file, line, column, message, code, severity), the clean      *)
(* packet, or None.                                                        *)
(***************************************************************************)
DeltaFiles == {"patch.py", "tmp.py"}
DeltaLines == {"3", "10"}
DeltaCodes == {"RUNTIME_ERROR", "PY_SYNTAX"}

DeltaPackets ==
    {[file |-> f, line |-> l, column |-> None, message |-> "invalid syntax", code |-> c,
      severity |-> "FATAL_RUNTIME"] : f \in DeltaFiles, l \in DeltaLines, c \in DeltaCodes}
        \cup {[status |-> "clean"], NoneObj}

InitDelta ==
    /\ self = AIDebugger(HealerPolicy)
    /\ now = 0
    /\ calls = 0
    /\ sandbox_calls = 0
    /\ memory = << >>
    /\ loop = IdleLoop
    /\ results = << >>
    /\ chat = << >>
    /\ db = EmptyDb
    /\ env = PatchEnvelope("p1", [patched_code |-> <<"pass">>], EmptyDict)
    /\ \E prev_raw \in DeltaPackets, cur_raw \in DeltaPackets :
          last = [op |-> "packets", prev_raw |-> prev_raw, cur_raw |-> cur_raw]

ErrorDelta ==
    /\ last.op = "packets"
    /\ last' = [op |-> "error_delta", prev_raw |-> last.prev_raw, cur_raw |-> last.cur_raw,
                delta |-> error_delta(last.prev_raw, last.cur_raw)]
    /\ UNCHANGED <<self, now, calls, sandbox_calls, memory, loop, results, chat, env, db>>

NextDelta == ErrorDelta

SpecDelta == InitDelta /\ [][NextDelta]_vars

\* C17: for packets that keep the error code under `code`, error_delta(prev,
\* cur) is first when prev is null; otherwise resolved when cur is clean;
\* otherwise same_error when the two codes are equal, with moved true exactly
\* when file or line differ; otherwise mutated.
C17_ErrorDelta ==
    last.op = "error_delta"
        => LET prev_raw == last.prev_raw
               cur_raw == last.cur_raw
               delta == last.delta
           IN  IF prev_raw = NoneObj THEN delta.kind = "first"
               ELSE IF cur_raw = NoneObj \/ DictGet(cur_raw, "status", None) = "clean"
               THEN delta.kind = "resolved"
               ELSE IF DictGet(prev_raw, "code", None) = DictGet(cur_raw, "code", None)
               THEN /\ delta.kind = "same_error"
                    /\ delta.moved = (DictGet(prev_raw, "file", None) # DictGet(cur_raw, "file", None)
                                      \/ DictGet(prev_raw, "line", None) # DictGet(cur_raw, "line", None))
               ELSE delta.kind = "mutated"

(***************************************************************************)
(* The rate limiter: process_error called while the clock advances in      *)
(* steps of half a window.  last.admitted keeps the times of the calls     *)
(* that were admitted, whatever the limiter has kept of them.              *)
(***************************************************************************)
MaxRateCalls == 6
MaxRateTicks == 3
RateTickStep == 30 * 1000

RateIncidents == {Incident("SECURITY", CleanPatch, 900000), Incident("LOGIC", CleanPatch, 700000)}
RateWorlds == {w \in Worlds : w.compile = NoBlob /\ DictGet(w.sandbox, "error_message", Traceback) = Traceback}

Admitted == DictGet(last, "admitted", << >>)

RateTick ==
    /\ now + RateTickStep <= MaxRateTicks * RateTickStep
    /\ now' = now + RateTickStep
    /\ UNCHANGED <<self, calls, sandbox_calls, memory, last, loop, results, chat, env, db>>

RateCall(incident, world) ==
    /\ calls < MaxRateCalls
    /\ LET args == [error_type |-> incident.error_type, message |-> incident.message,
                    patch_code |-> incident.patch_code, original_code |-> incident.original_code,
                    max_prob |-> incident.max_prob, historical |-> EmptyDict, metadata |-> EmptyDict]
       IN  \E out \in {process_error(self, now, incident.error_type, incident.message,
                                     incident.patch_code, incident.original_code,
                                     incident.max_prob, EmptyDict, EmptyDict, world)} :
              /\ self' = SelfAfter(out)
              /\ sandbox_calls' = sandbox_calls + (IF out.executed THEN 1 ELSE 0)
              /\ memory' = add_outcome(memory, "envelope", out.stored)
              /\ last' = DictSet(CallRecord("caller", args, world, out), "admitted",
                                 IF out.raised = None THEN Append(Admitted, now) ELSE Admitted)
    /\ calls' = calls + 1
    /\ UNCHANGED <<now, loop, results, chat, env, db>>

NextRate ==
    \/ RateTick
    \/ \E incident \in RateIncidents, world \in RateWorlds : RateCall(incident, world)

SpecRate == Init /\ [][NextRate]_vars

\* how many of the times in `times` lie in the 60 seconds from `start` on
InWindow(times, start) ==
    Cardinality({i \in 1..Len(times) : start <= times[i] /\ times[i] < start + RateWindow})

\* how many calls were admitted during the 60 seconds before the clock's `now`
AdmittedLately == Cardinality({i \in 1..Len(Admitted) : now - Admitted[i] < RateWindow})

\* C13: process_error admits a call only if fewer than rate_limit_per_min
\* calls were admitted during the preceding 60 seconds; otherwise it raises
\* the rate-limit error before any envelope is created, leaving the breaker,
\* the cascade chain, the scorer history and the recorded tokens as they
\* were; so at most rate_limit_per_min calls are admitted in any 60-second
\* window.
C13_RateLimit ==
    /\ [][(calls' = calls + 1)
            => IF AdmittedLately < self.policy.rate_limit_per_min
               THEN last'.raised # "Rate limit exceeded for patch attempts"
               ELSE /\ last'.raised = "Rate limit exceeded for patch attempts"
                    /\ last'.result = NoneObj
                    /\ ~last'.executed
                    /\ sandbox_calls' = sandbox_calls
                    /\ memory' = memory
                    /\ self' = self]_vars
    /\ [](\A i \in 1..Len(Admitted) :
             InWindow(Admitted, Admitted[i]) <= self.policy.rate_limit_per_min)

\* C13 witness: a call refused although the limiter had admitted calls more
\* than 60 seconds ago, after as many as the limit were admitted lately
C13_Witness ==
    /\ last.op = "process_error"
    /\ last.raised = "Rate limit exceeded for patch attempts"
    /\ Len(Admitted) > self.policy.rate_limit_per_min
    /\ AdmittedLately = self.policy.rate_limit_per_min

(***************************************************************************)
(* The knowledge base: EnvelopeStorage's success_patterns table.  A row is *)
(* id, error_code, cluster_id, fix_description, fix_diff, success_count,   *)
(* avg_confidence (ppm), tags (the comma-joined text, kept as the sequence *)
(* of its tags) and last_success_at (the store's clock, in days).          *)
(***************************************************************************)
\* NULL in the tags column: a text that no tag list is
SqlNull == <<"<NULL>">>

\* tags LIKE '%GOLD_STANDARD%': LIKE does not tell upper from lower case
like_gold_standard(tags) ==
    \E i \in 1..Len(tags) : tags[i] \in {"GOLD_STANDARD", "gold_standard"}

\* a mutation of the WHERE clauses: the two protection conditions are left out
deletes_unprotected(row, strategy, clock) ==
    CASE strategy = "conservative"
           -> row.success_count = 1 /\ row.last_success_at < clock - 90
      [] strategy = "aggressive"
           -> row.success_count < 3 /\ row.last_success_at < clock - 60
      [] strategy = "nuclear"
           -> row.success_count < 5
      [] OTHER -> FALSE

\* the WHERE clause of the DELETE of each strategy
deletes(row, strategy, clock) ==
    CASE strategy = "conservative"
           -> /\ row.success_count = 1
              /\ row.last_success_at < clock - 90
              /\ row.success_count < 10
              /\ (~like_gold_standard(row.tags) \/ row.tags = SqlNull)
      [] strategy = "aggressive"
           -> /\ row.success_count < 3
              /\ row.last_success_at < clock - 60
              /\ row.success_count < 10
              /\ (~like_gold_standard(row.tags) \/ row.tags = SqlNull)
      [] strategy = "nuclear"
           -> /\ row.success_count < 5
              /\ row.success_count < 10
              /\ (~like_gold_standard(row.tags) \/ row.tags = SqlNull)
      [] OTHER -> FALSE

\* garbage_collect_patterns: the table afterwards and the returned counts
garbage_collect_patterns(store, strategy, clock) ==
    IF strategy \notin {"conservative", "aggressive", "nuclear"}
    THEN [raised |-> "Unknown strategy", db |-> store, result |-> NoneObj]
    ELSE LET rows == store.success_patterns
             Stays(row) == ~deletes(row, strategy, clock)
             Protected(row) == row.success_count >= 10
                                  \/ like_gold_standard(row.tags)
             remaining == SelectSeq(rows, Stays)
         IN  [raised |-> None,
              db |-> [store EXCEPT !.success_patterns = remaining],
              result |-> [deleted_count |-> Len(rows) - Len(remaining),
                          remaining_count |-> Len(remaining),
                          protected_count |-> Len(SelectSeq(remaining, Protected)),
                          strategy |-> strategy]]

\* the tag save_success_pattern derives from the confidence
auto_tags(confidence) ==
    IF confidence >= 900000 THEN <<"GOLD_STANDARD">>
    ELSE IF confidence >= 800000 THEN <<"HIGH_CONFIDENCE">>
    ELSE IF confidence >= 700000 THEN <<"VERIFIED">>
    ELSE << >>

\* cluster_id or ""
cluster_or_empty(cluster_id) == IF cluster_id = None \/ cluster_id = "" THEN "" ELSE cluster_id

\* a mutation of save_success_pattern's lookup: the cluster is not compared
matches_without_cluster(row, error_code, cluster_id, fix_description) ==
    /\ row.error_code = error_code
    /\ row.fix_description = fix_description

\* WHERE error_code = ? AND cluster_id = ? AND fix_description = ?
matches(row, error_code, cluster_id, fix_description) ==
    /\ row.error_code = error_code
    /\ row.cluster_id = cluster_or_empty(cluster_id)
    /\ row.fix_description = fix_description

\* save_success_pattern: the first matching row is updated in place, or a row
\* is inserted under the next id
save_success_pattern(store, error_code, cluster_id, fix_description, fix_diff, confidence, clock) ==
    LET rows == store.success_patterns
        found == {i \in 1..Len(rows) : matches(rows[i], error_code, cluster_id, fix_description)}
    IN  IF found # {}
        THEN LET i == CHOOSE j \in found : \A k \in found : j <= k
                 old_count == rows[i].success_count
                 old_avg == rows[i].avg_confidence
                 new_count == old_count + 1
                 new_avg == (old_avg * old_count + confidence) \div new_count
             IN  [store EXCEPT !.success_patterns[i] =
                      [@ EXCEPT !.success_count = new_count, !.avg_confidence = new_avg,
                                !.tags = auto_tags(confidence), !.last_success_at = clock]]
        ELSE [success_patterns |->
                  Append(rows, [id |-> store.sqlite_sequence + 1, error_code |-> error_code,
                                cluster_id |-> cluster_or_empty(cluster_id),
                                fix_description |-> fix_description, fix_diff |-> fix_diff,
                                success_count |-> 1, avg_confidence |-> confidence,
                                tags |-> auto_tags(confidence), last_success_at |-> clock]),
              sqlite_sequence |-> store.sqlite_sequence + 1]

\* error codes are dotted: a code is kept as the sequence of its segments,
\* "RES.NAME_ERROR" as <<"RES", "NAME_ERROR">>; the empty text is << >>
NameError == <<"RES", "NAME_ERROR">>
FileNotFound == <<"RES", "FILE_NOT_FOUND">>
ImportError == <<"RES", "IMPORT_ERROR">>

\* the table as a test or an earlier life of the store left it: up to two
\* rows, written at time 0, of any count, average and tags
MaxStoreCalls == 3
MaxStoreTicks == 3
StoreTickStep == 90 \div 2

SeedCounts == {1, 4, 10}
SeedConfidences == {300000, 950000}
SeedTags == {SqlNull, <<"VERIFIED">>, <<"GOLD_STANDARD">>, <<"HIGH_CONFIDENCE", "gold_standard">>}

SaveKeys ==
    {[error_code |-> NameError, cluster_id |-> c, fix_description |-> "Import requests library"] :
        c \in {"RES.NAME_ERROR:requests", "", None}}
SaveConfidences == {750000, 950000}

SeedRows(key) ==
    {[id |-> 0, error_code |-> key.error_code, cluster_id |-> cluster_or_empty(key.cluster_id),
      fix_description |-> key.fix_description, fix_diff |-> "+ import requests",
      success_count |-> c, avg_confidence |-> a, tags |-> t, last_success_at |-> 0] :
        c \in SeedCounts, a \in SeedConfidences, t \in SeedTags}

SeedTables ==
    LET first == SeedRows([error_code |-> NameError, cluster_id |-> "RES.NAME_ERROR:requests",
                           fix_description |-> "Import requests library"])
        second == SeedRows([error_code |-> NameError, cluster_id |-> "",
                            fix_description |-> "Import requests library"])
    IN  {EmptyDb}
        \cup {[success_patterns |-> <<[a EXCEPT !.id = 1]>>, sqlite_sequence |-> 1] : a \in first}
        \cup {[success_patterns |-> <<[a EXCEPT !.id = 1], [b EXCEPT !.id = 2]>>, sqlite_sequence |-> 2] :
                  a \in first, b \in second}

\* everything but the table
InitStore ==
    /\ self = AIDebugger(HealerPolicy)
    /\ now = 0
    /\ calls = 0
    /\ sandbox_calls = 0
    /\ memory = << >>
    /\ last = NoCall
    /\ loop = IdleLoop
    /\ results = << >>
    /\ chat = << >>
    /\ env = PatchEnvelope("p1", [patched_code |-> <<"pass">>], EmptyDict)

InitStorage == InitStore /\ db \in SeedTables

StoreTick ==
    /\ now + StoreTickStep <= MaxStoreTicks * StoreTickStep
    /\ now' = now + StoreTickStep
    /\ UNCHANGED <<self, calls, sandbox_calls, memory, last, loop, results, chat, env, db>>

\* the keys of the saves made so far, in order
Saves == DictGet(last, "saves", << >>)

SavePattern(key, confidence) ==
    /\ calls < MaxStoreCalls
    /\ calls' = calls + 1
    /\ db' = save_success_pattern(db, key.error_code, key.cluster_id, key.fix_description,
                                  "+ import requests", confidence, now)
    /\ last' = [op |-> "save_success_pattern", saves |-> Append(Saves, key)]
    /\ UNCHANGED <<self, now, sandbox_calls, memory, loop, results, chat, env>>

GarbageCollect(strategy) ==
    /\ calls < MaxStoreCalls
    /\ calls' = calls + 1
    /\ LET out == garbage_collect_patterns(db, strategy, now)
       IN  /\ db' = out.db
           /\ last' = [op |-> "garbage_collect_patterns", strategy |-> strategy,
                       raised |-> out.raised, result |-> out.result, saves |-> Saves]
    /\ UNCHANGED <<self, now, sandbox_calls, memory, loop, results, chat, env>>

Strategies == {"conservative", "aggressive", "nuclear", "scorched"}

NextStorage ==
    \/ StoreTick
    \/ \E key \in SaveKeys, confidence \in SaveConfidences : SavePattern(key, confidence)
    \/ \E strategy \in Strategies : GarbageCollect(strategy)

SpecStorage == InitStorage /\ [][NextStorage]_vars

\* a row the retention policy protects: a proven winner, or tagged GOLD_STANDARD
ProtectedRow(row) ==
    \/ row.success_count >= 10
    \/ \E i \in 1..Len(row.tags) : row.tags[i] = "GOLD_STANDARD"

\* C19: under every strategy and for any table contents,
\* garbage_collect_patterns deletes no success pattern whose success_count is
\* at least 10 or whose tags include GOLD_STANDARD, whatever its age or
\* average confidence.
C19_GcProtects ==
    [][(calls' = calls + 1 /\ last'.op = "garbage_collect_patterns")
         => \A i \in 1..Len(db.success_patterns) :
               ProtectedRow(db.success_patterns[i])
                   => \E j \in 1..Len(db'.success_patterns) :
                         db'.success_patterns[j] = db.success_patterns[i]]_vars

\* C19 witness: a nuclear collection has deleted a row and left one that has
\* a single success, a low average and the GOLD_STANDARD tag, unused for over
\* 90 days
C19_Witness ==
    /\ last.op = "garbage_collect_patterns"
    /\ last.strategy = "nuclear"
    /\ last.result.deleted_count = 1
    /\ \E i \in 1..Len(db.success_patterns) :
          LET row == db.success_patterns[i]
          IN  /\ row.success_count = 1
              /\ row.tags = <<"GOLD_STANDARD">>
              /\ row.avg_confidence = 300000
              /\ row.last_success_at < now - 90

\* the knowledge base filled by saves alone, from the empty table
InitSaves == InitStorage /\ db = EmptyDb

NextSaves ==
    \/ StoreTick
    \/ \E key \in SaveKeys, confidence \in SaveConfidences : SavePattern(key, confidence)

SpecSaves == InitSaves /\ [][NextSaves]_vars

\* the key of a row, and the key a save is stored under
RowKey(row) ==
    [error_code |-> row.error_code, cluster_id |-> row.cluster_id,
     fix_description |-> row.fix_description]

StoredKey(key) == [key EXCEPT !.cluster_id = cluster_or_empty(@)]

SavedKeys == {Saves[i] : i \in 1..Len(Saves)}

RowsOf(key) ==
    {i \in 1..Len(db.success_patterns) : RowKey(db.success_patterns[i]) = StoredKey(key)}

\* C20: after any sequential series of save_success_pattern calls the
\* knowledge base holds exactly one row per distinct (error_code, cluster_id,
\* fix_description) as passed to the saves, and the row's success_count is
\* the number of saves made with that key.
C20_OneRowPerKey ==
    /\ Len(db.success_patterns) = Cardinality(SavedKeys)
    /\ \A key \in SavedKeys :
          /\ Cardinality(RowsOf(key)) = 1
          /\ \A i \in RowsOf(key) :
                db.success_patterns[i].success_count
                    = Cardinality({n \in 1..Len(Saves) : Saves[n] = key})

\* C20 as the code has it: one row per distinct (error_code, cluster_id or "",
\* fix_description), a null cluster_id sharing the row of the empty one, and
\* the row's success_count is the number of saves stored under that key.
C20_OneRowPerStoredKey ==
    /\ Len(db.success_patterns) = Cardinality({StoredKey(key) : key \in SavedKeys})
    /\ \A key \in SavedKeys :
          /\ Cardinality(RowsOf(key)) = 1
          /\ \A i \in RowsOf(key) :
                db.success_patterns[i].success_count
                    = Cardinality({n \in 1..Len(Saves) : StoredKey(Saves[n]) = StoredKey(key)})

\* C20 witness: three saves, one with a cluster and two without (one null,
\* one empty), have left two rows, the second with success_count 2
C20_Witness ==
    /\ Len(Saves) = 3
    /\ \E i, j \in 1..Len(Saves) : Saves[i].cluster_id = None /\ Saves[j].cluster_id = ""
    /\ Len(db.success_patterns) = 2
    /\ \E i \in 1..Len(db.success_patterns) :
          db.success_patterns[i].cluster_id = "" /\ db.success_patterns[i].success_count = 2

(***************************************************************************)
(* The knowledge base's query.                                             *)
(***************************************************************************)
\* ORDER BY success_count DESC, avg_confidence DESC: a comes before b
sorts_before(a, b) ==
    \/ a.success_count > b.success_count
    \/ a.success_count = b.success_count /\ a.avg_confidence > b.avg_confidence

\* the sorter keeps rows that compare equal in the order of the scan
RECURSIVE insert_ordered(_, _)
insert_ordered(sorted, row) ==
    IF sorted = << >> THEN <<row>>
    ELSE IF sorts_before(row, Head(sorted)) THEN <<row>> \o sorted
    ELSE <<Head(sorted)>> \o insert_ordered(Tail(sorted), row)

RECURSIVE order_by(_)
order_by(rows) ==
    IF rows = << >> THEN << >>
    ELSE insert_ordered(order_by(SubSeq(rows, 1, Len(rows) - 1)), rows[Len(rows)])

\* LIMIT ?: a negative limit is no limit
sql_limit(rows, limit) ==
    IF limit < 0 \/ Len(rows) <= limit THEN rows ELSE SubSeq(rows, 1, limit)

\* _row_to_pattern: the selected columns, the tags split at the commas
row_to_pattern(row) ==
    [error_code |-> row.error_code, cluster_id |-> row.cluster_id,
     fix_description |-> row.fix_description, fix_diff |-> row.fix_diff,
     success_count |-> row.success_count, avg_confidence |-> row.avg_confidence,
     tags |-> IF row.tags = SqlNull THEN << >> ELSE row.tags,
     last_success_at |-> row.last_success_at]

\* the loop over the rows of one level: a row whose (cluster_id,
\* fix_description) was not seen joins the list, at levels 2 and 3 only while
\* the list is shorter than limit
RECURSIVE add_level(_, _, _, _, _)
add_level(patterns, rows, level, limit, bounded) ==
    IF rows = << >> THEN patterns
    ELSE LET row == Head(rows)
             seen == {<<patterns[i].cluster_id, patterns[i].fix_description>> : i \in 1..Len(patterns)}
             taken == /\ <<row.cluster_id, row.fix_description>> \notin seen
                      /\ (bounded => Len(patterns) < limit)
         IN  add_level(IF taken
                       THEN Append(patterns, DictSet(row_to_pattern(row), "fallback_level", level))
                       ELSE patterns,
                       Tail(rows), level, limit, bounded)

\* error_code LIKE 'FAMILY.%'
like_family(error_code, family) == Len(error_code) >= 2 /\ Head(error_code) = family

\* get_similar_success_patterns; error_code << >> and cluster_id None or ""
\* are the arguments left out
get_similar_success_patterns(store, error_code, cluster_id, limit, min_confidence) ==
    LET rows == store.success_patterns
        has_cluster == cluster_id # None /\ cluster_id # ""
        has_code == error_code # << >>
        ByCluster(row) == row.cluster_id = cluster_id /\ row.avg_confidence >= min_confidence
        ByCode(row) == row.error_code = error_code /\ row.avg_confidence >= min_confidence
        ByFamily(row) == like_family(row.error_code, Head(error_code))
                            /\ row.avg_confidence >= min_confidence
        level1 == IF has_cluster
                  THEN add_level(<< >>, sql_limit(order_by(SelectSeq(rows, ByCluster)), limit),
                                 "cluster", limit, FALSE)
                  ELSE << >>
        level2 == IF Len(level1) < limit /\ has_code
                  THEN add_level(level1, sql_limit(order_by(SelectSeq(rows, ByCode)), limit),
                                 "error_code", limit, TRUE)
                  ELSE level1
        level3 == IF Len(level2) < limit /\ has_code /\ Len(error_code) >= 2
                  THEN add_level(level2, sql_limit(order_by(SelectSeq(rows, ByFamily)), limit),
                                 "family", limit, TRUE)
                  ELSE level2
    IN  IF ~has_code /\ ~has_cluster THEN << >> ELSE level3

\* tables for the query: the three RES.NAME_ERROR patterns and the unrelated
\* RES.FILE_NOT_FOUND one of the fallback test, each with one success or
\* three, or missing; and a pattern that repeats the cluster and description
\* of the first under another code
QueryRow(error_code, cluster_id, fix_description, success_count, avg_confidence) ==
    [id |-> 0, error_code |-> error_code, cluster_id |-> cluster_id,
     fix_description |-> fix_description, fix_diff |-> "+ import",
     success_count |-> success_count, avg_confidence |-> avg_confidence,
     tags |-> auto_tags(avg_confidence), last_success_at |-> 0]

QueryCounts == {0, 1, 3}

RECURSIVE number_rows(_, _)
number_rows(rows, n) ==
    IF rows = << >> THEN << >>
    ELSE <<[Head(rows) EXCEPT !.id = n]>> \o number_rows(Tail(rows), n + 1)

QueryTable(c1, c2, c3, c4, c5) ==
    LET present ==
            (IF c1 > 0 THEN <<QueryRow(NameError, "RES.NAME_ERROR:requests", "Import requests", c1, 880000)>> ELSE << >>)
         \o (IF c2 > 0 THEN <<QueryRow(NameError, "RES.NAME_ERROR:pandas", "Import pandas", c2, 880000)>> ELSE << >>)
         \o (IF c3 > 0 THEN <<QueryRow(NameError, "RES.NAME_ERROR:numpy", "Import numpy", c3, 880000)>> ELSE << >>)
         \o (IF c4 > 0 THEN <<QueryRow(FileNotFound, "RES.FILE_NOT_FOUND:config.json", "Check file exists", c4, 910000)>> ELSE << >>)
         \o (IF c5 > 0 THEN <<QueryRow(ImportError, "RES.NAME_ERROR:requests", "Import requests", c5, 910000)>> ELSE << >>)
    IN  [success_patterns |-> number_rows(present, 1), sqlite_sequence |-> Len(present)]

\* the knowledge base of the fallback test
FallbackTable == QueryTable(1, 1, 1, 1, 0)

QueryTables ==
    {QueryTable(c1, c2, c3, c4, c5) :
        c1 \in QueryCounts, c2 \in QueryCounts, c3 \in {0, 1}, c4 \in QueryCounts, c5 \in {0, 1}}

InitQuery == InitStore /\ db \in QueryTables

QueryCodes == {<< >>, NameError}
QueryClusters == {None, "RES.NAME_ERROR:requests", "RES.NAME_ERROR:newlib"}
QueryLimits == {0, 1, 2, 5}
QueryFloors == {0, 900000}

GetSimilar(error_code, cluster_id, limit, min_confidence) ==
    /\ last' = [op |-> "get_similar_success_patterns", error_code |-> error_code,
                cluster_id |-> cluster_id, limit |-> limit, min_confidence |-> min_confidence,
                result |-> get_similar_success_patterns(db, error_code, cluster_id, limit, min_confidence)]
    /\ UNCHANGED <<self, now, calls, sandbox_calls, memory, loop, results, chat, env, db>>

NextQuery ==
    \E error_code \in QueryCodes, cluster_id \in QueryClusters, limit \in QueryLimits,
       min_confidence \in QueryFloors : GetSimilar(error_code, cluster_id, limit, min_confidence)

SpecQuery == InitQuery /\ [][NextQuery]_vars

\* C21: the list get_similar_success_patterns returns has no two rows with
\* the same (cluster_id, fix_description), has at most limit rows, and is
\* ordered as a whole by success_count descending, then avg_confidence
\* descending, also when its rows come from different fallback levels.
C21_QueryResult ==
    last.op = "get_similar_success_patterns"
        => LET patterns == last.result
           IN  /\ \A i, j \in 1..Len(patterns) :
                     (patterns[i].cluster_id = patterns[j].cluster_id
                      /\ patterns[i].fix_description = patterns[j].fix_description) => i = j
               /\ Len(patterns) <= last.limit
               /\ \A i \in 1..(Len(patterns) - 1) : ~sorts_before(patterns[i + 1], patterns[i])

\* C22: on the knowledge base of the fallback test, the query (RES.NAME_ERROR,
\* RES.NAME_ERROR:newlib, limit 5) returns at least three rows, every row has
\* error_code RES.NAME_ERROR, and the first row's fallback_level is error_code
\* or family.
C22_FallbackScenario ==
    (/\ last.op = "get_similar_success_patterns"
     /\ db = FallbackTable
     /\ last.error_code = NameError
     /\ last.cluster_id = "RES.NAME_ERROR:newlib"
     /\ last.limit = 5
     /\ last.min_confidence = 0)
        => LET patterns == last.result
           IN  /\ Len(patterns) >= 3
               /\ \A i \in 1..Len(patterns) : patterns[i].error_code = NameError
               /\ patterns[1].fallback_level \in {"error_code", "family"}

(***************************************************************************)
(* The chat adapter and its audit copies: one adapter on the orchestrator's*)
(* memory buffer, add_message and get_messages called in any order.        *)
(***************************************************************************)
\* the entry add_message hands to the memory buffer
chat_message(message) == [type |-> "chat_message", session |-> "s1", message |-> message]

\* the caller chooses the first message freely; a long conversation goes on
\* with tool messages
FreeMessages == 1
MaxMessages == memory_max_size + 2
ChatRoles == {"user", "tool"}
ChatContents == {[type |-> "patch_envelope"], [type |-> "rebanker_result"]}

InitAudit ==
    /\ InitCommon
    /\ self = AIDebugger(HealerPolicy)

\* ChatMessageAdapter.add_message; the wall clock reads later at every call
AddMessage(role, content) ==
    /\ Len(chat) < MaxMessages
    /\ Len(chat) >= FreeMessages => role = "tool" /\ content = [type |-> "patch_envelope"]
    /\ chat' = add_message(chat, role, content, "backoff", now)
    /\ memory' = add_outcome(memory, chat_message(Last(chat')), 1)
    /\ now' = now + 1
    /\ last' = [op |-> "add_message"]
    /\ UNCHANGED <<self, calls, sandbox_calls, loop, results, env, db>>

\* ChatMessageAdapter.get_messages
GetMessages ==
    /\ last.op # "get_messages"
    /\ last' = [op |-> "get_messages", result |-> chat]
    /\ UNCHANGED <<self, now, calls, sandbox_calls, memory, loop, results, chat, env, db>>

NextAudit ==
    \/ \E role \in ChatRoles, content \in ChatContents : AddMessage(role, content)
    \/ GetMessages

SpecAudit == InitAudit /\ [][NextAudit]_vars

\* C23: get_messages returns every appended message, in insertion order and
\* unaltered, and every message ever appended still has a matching
\* chat_message entry in the audit buffer
C23_HistoryAudited ==
    /\ last.op = "get_messages" => last.result = chat
    /\ \A i \in 1..Len(chat) : \E j \in 1..Len(memory) : memory[j] = chat_message(chat[i])

(***************************************************************************)
(* One scorer shared by sessions on several threads.  record_outcome holds *)
(* no lock: another thread can run between its append and its eviction.    *)
(* `loop` is the recording thread's position, `last` what a calibrating    *)
(* thread has read.                                                        *)
(***************************************************************************)
MaxScorerCalls == 2
ScorerConfidences == {300000, 900000}

\* the histories a scorer can hold when the sessions start: empty, short of
\* calibration, one short of full, full
ScorerHistories ==
    {Repeat([confidence |-> 900000, was_correct |-> TRUE], n) :
        n \in {0, 9, calibration_samples - 1, calibration_samples}}

InitScorer ==
    /\ InitCommon
    /\ \E h \in ScorerHistories : self = [AIDebugger(HealerPolicy) EXCEPT !.historical_scores = h]

\* record_outcome, first statement: the pair is appended
RecordAppend(confidence, was_correct) ==
    /\ loop.pc = "idle"
    /\ calls < MaxScorerCalls
    /\ self' = [self EXCEPT !.historical_scores =
                    Append(@, [confidence |-> confidence, was_correct |-> was_correct])]
    /\ loop' = [pc |-> "appended"]
    /\ calls' = calls + 1
    /\ UNCHANGED <<now, sandbox_calls, memory, last, results, chat, env, db>>

\* record_outcome, second statement: the oldest pair leaves a ring that is over its size
RecordEvict ==
    /\ loop.pc = "appended"
    /\ self' = [self EXCEPT !.historical_scores =
                    IF Len(@) > calibration_samples THEN Tail(@) ELSE @]
    /\ loop' = IdleLoop
    /\ UNCHANGED <<now, calls, sandbox_calls, memory, last, results, chat, env, db>>

\* _beta_calibrate on another thread: it reads the history as it stands
Calibrate(confidence) ==
    /\ last' = [op |-> "beta_calibrate", samples |-> Len(self.historical_scores),
                result |-> beta_calibrate(self.historical_scores, confidence)]
    /\ last' # last
    /\ UNCHANGED <<self, now, calls, sandbox_calls, memory, loop, results, chat, env, db>>

NextScorer ==
    \/ \E confidence \in ScorerConfidences, was_correct \in BOOLEAN : RecordAppend(confidence, was_correct)
    \/ RecordEvict
    \/ \E confidence \in ScorerConfidences : Calibrate(confidence)

SpecScorer == InitScorer /\ [][NextScorer]_vars

\* C24: every calibration read sees a history left by whole record_outcome
\* operations: at most calibration_samples pairs, and never the state between
\* an append and its eviction
C24_AtomicRecord ==
    last.op = "beta_calibrate" => last.samples <= calibration_samples

(***************************************************************************)
(* cascading_error_handler.py: SandboxExecution on its own.  `self` is the *)
(* sandbox object; patched_code is a string, here a sequence of characters.*)
(***************************************************************************)
ResourceLimits(time_ms, memory_mb, cpu_percent) ==
    [max_execution_time_ms |-> time_ms, max_memory_mb |-> memory_mb, max_cpu_percent |-> cpu_percent]

SandboxExecution(isolation_level, resource_limits) ==
    [isolation_level |-> isolation_level, resource_limits |-> resource_limits, test_results |-> << >>]

\* _check_resource_limits: nothing is measured
check_resource_limits(sandbox) == TRUE

create_failure_result(sandbox, error_message) ==
    [success |-> FALSE, error_message |-> error_message, isolation_level |-> sandbox.isolation_level,
     execution_time_ms |-> 0, memory_used_mb |-> 0, cpu_used_percent |-> 0,
     side_effects |-> <<"execution_failed">>, test_results |-> << >>]

\* _execute_with_full_isolation, _execute_with_partial_isolation, _execute_without_isolation
execute_with_isolation(sandbox) ==
    IF sandbox.isolation_level = "full"
    THEN [success |-> TRUE, isolation_level |-> "full", execution_time_ms |-> 1500,
          memory_used_mb |-> 45, cpu_used_percent |-> 15, side_effects |-> << >>]
    ELSE IF sandbox.isolation_level = "partial"
    THEN [success |-> TRUE, isolation_level |-> "partial", execution_time_ms |-> 1200,
          memory_used_mb |-> 38, cpu_used_percent |-> 12, side_effects |-> <<"logged_warning">>]
    ELSE [success |-> TRUE, isolation_level |-> "none", execution_time_ms |-> 800,
          memory_used_mb |-> 25, cpu_used_percent |-> 8, side_effects |-> <<"potential_system_impact">>]

simulate_test(test_type, patch_data) ==
    LET n == Len(DictGet(patch_data, "patched_code", << >>))
    IN  IF test_type = "unit" THEN n % 3 # 0
        ELSE IF test_type = "integration" THEN n % 5 # 0
        ELSE IF test_type = "security" THEN n % 7 # 0
        ELSE TRUE

test_types == <<"syntax", "unit", "integration", "performance", "security">>

\* _run_test_suite: five results join the sandbox's list
run_test_suite(test_results, patch_data) ==
    test_results \o [i \in 1..Len(test_types) |->
        [test_type |-> test_types[i], passed |-> simulate_test(test_types[i], patch_data),
         execution_time_ms |-> 100 + Len(test_types) * 50,
         error_message |-> IF simulate_test(test_types[i], patch_data) THEN << >>
                           ELSE <<test_types[i], "test failed">>]]

\* execute_patch: the sandbox afterwards and the dict returned, whose
\* test_results is the sandbox's own list
execute_patch(sandbox, patch_data) ==
    IF ~check_resource_limits(sandbox)
    THEN [sandbox |-> sandbox, result |-> create_failure_result(sandbox, "Resource limits exceeded")]
    ELSE LET tests == run_test_suite(sandbox.test_results, patch_data)
         IN  [sandbox |-> [sandbox EXCEPT !.test_results = tests],
              result |-> DictSet(execute_with_isolation(sandbox), "test_results", tests)]

MaxSandboxCalls == 2
IsolationLevels == {"full", "partial", "none"}
SandboxLimits ==
    {ResourceLimits(t, m, c) : t \in {1000, 30000}, m \in {40, 500}, c \in {10, 80}}
SandboxPatches ==
    {EmptyDict, [patched_code |-> <<"x">>], [patched_code |-> <<"x", "=", "1">>]}

InitSandbox ==
    /\ InitCommon
    /\ \E level \in IsolationLevels, limits \in SandboxLimits : self = SandboxExecution(level, limits)

ExecutePatch(patch_data) ==
    /\ calls < MaxSandboxCalls
    /\ \E out \in {execute_patch(self, patch_data)} :
          /\ self' = out.sandbox
          /\ last' = [op |-> "execute_patch", result |-> out.result]
    /\ calls' = calls + 1
    /\ UNCHANGED <<now, sandbox_calls, memory, loop, results, chat, env, db>>

NextSandbox == \E patch_data \in SandboxPatches : ExecutePatch(patch_data)

SpecSandbox == InitSandbox /\ [][NextSandbox]_vars

\* C25: execute_patch never reports success with an execution time, memory use
\* or CPU use above the configured limits; a run over a ceiling fails with
\* "Resource limits exceeded"
C25_WithinLimits ==
    last.op = "execute_patch" =>
        LET r == last.result
            limits == self.resource_limits
            over == \/ r.execution_time_ms > limits.max_execution_time_ms
                    \/ r.memory_used_mb > limits.max_memory_mb
                    \/ r.cpu_used_percent > limits.max_cpu_percent
        IN  /\ ~(r.success /\ over)
            /\ over => r.error_message = "Resource limits exceeded"

(***************************************************************************)
(* The scorer as a function of its inputs: calculate_confidence applied to *)
(* any class, any historical record (values outside [0, 1] included) and   *)
(* a history short of or ready for calibration.                            *)
(***************************************************************************)
MaxProbs == {250000, 800000, Scale}
ConfidenceHistories ==
    {Repeat([confidence |-> 900000, was_correct |-> b], n) : b \in BOOLEAN, n \in {0, 10}}
HistoricalRecords ==
    {EmptyDict,
     [success_rate |-> 850000, pattern_similarity |-> 750000, complexity_score |-> 3000, test_coverage |-> 800000],
     [success_rate |-> 1500000], [pattern_similarity |-> 0 - 500000],
     [test_coverage |-> 2000000], [complexity_score |-> 0], [complexity_score |-> 20000]}
Taxonomies == {EmptyDict, [difficulty |-> 0], [difficulty |-> Scale]}

InitConfidence ==
    /\ InitCommon
    /\ \E h \in ConfidenceHistories : self = [AIDebugger(HealerPolicy) EXCEPT !.historical_scores = h]

CalculateConfidence(max_prob, error_type, historical_data, taxonomy) ==
    /\ last' = [op |-> "calculate_confidence", historical_data |-> historical_data,
                score |-> calculate_confidence(self.historical_scores, max_prob, error_type,
                                               historical_data, taxonomy)]
    /\ last' # last
    /\ UNCHANGED <<self, now, calls, sandbox_calls, memory, loop, results, chat, env, db>>

NextConfidence ==
    \E max_prob \in MaxProbs, error_type \in ErrorType, historical_data \in HistoricalRecords, taxonomy \in Taxonomies :
        CalculateConfidence(max_prob, error_type, historical_data, taxonomy)

SpecConfidence == InitConfidence /\ [][NextConfidence]_vars

UnitInterval(x) == 0 <= x /\ x <= Scale

\* C26: whatever the inputs, overall, syntax and logic confidence and every
\* component lie in [0, 1], and the complexity penalty lies in [0.1, 1.0]
C26_ScoreBounded ==
    last.op = "calculate_confidence" =>
        LET c == last.score.components
        IN  /\ UnitInterval(last.score.overall_confidence)
            /\ UnitInterval(last.score.syntax_confidence)
            /\ UnitInterval(last.score.logic_confidence)
            /\ UnitInterval(c.historical_success_rate)
            /\ UnitInterval(c.pattern_similarity)
            /\ UnitInterval(c.test_coverage)
            /\ Scale \div 10 <= c.code_complexity_penalty /\ c.code_complexity_penalty <= Scale

(***************************************************************************)
(* The envelope through JSON and back.  json.dumps and json.loads keep the *)
(* values an envelope holds (dicts with string keys, lists, strings,       *)
(* numbers, booleans, None); from_json rebuilds an envelope from sixteen   *)
(* keys of the parsed dict, the constructor filling in what is absent.     *)
(***************************************************************************)
from_json_losing_success(data) ==
    [patch_id |-> data.patch_id, patch_data |-> data.patch_data,
     metadata |-> DictGet(data, "metadata", EmptyDict),
     attempts |-> DictGet(data, "attempts", << >>),
     confidenceComponents |-> DictGet(data, "confidenceComponents", EmptyDict),
     breakerState |-> DictGet(data, "breakerState", "CLOSED"),
     cascadeDepth |-> DictGet(data, "cascadeDepth", 0),
     resourceUsage |-> DictGet(data, "resourceUsage", EmptyDict),
     flagged_for_developer |-> DictGet(data, "flagged_for_developer", FALSE),
     developer_message |-> DictGet(data, "developer_message", ""),
     developer_flag_reason |-> DictGet(data, "developer_flag_reason", None),
     success |-> FALSE,
     trendMetadata |-> DictGet(data, "trendMetadata",
                               [errorsDetected |-> 0, errorsResolved |-> 0, errorTrend |-> "unknown"]),
     counters |-> DictGet(data, "counters", EmptyDict),
     timeline |-> DictGet(data, "timeline", << >>),
     envelopeHash |-> DictGet(data, "envelopeHash", NoneObj)]

\* PatchEnvelope.from_json on the parsed dict
from_json(data) ==
    [patch_id |-> data.patch_id, patch_data |-> data.patch_data,
     metadata |-> DictGet(data, "metadata", EmptyDict),
     attempts |-> DictGet(data, "attempts", << >>),
     confidenceComponents |-> DictGet(data, "confidenceComponents", EmptyDict),
     breakerState |-> DictGet(data, "breakerState", "CLOSED"),
     cascadeDepth |-> DictGet(data, "cascadeDepth", 0),
     resourceUsage |-> DictGet(data, "resourceUsage", EmptyDict),
     flagged_for_developer |-> DictGet(data, "flagged_for_developer", FALSE),
     developer_message |-> DictGet(data, "developer_message", ""),
     developer_flag_reason |-> DictGet(data, "developer_flag_reason", None),
     success |-> DictGet(data, "success", FALSE),
     trendMetadata |-> DictGet(data, "trendMetadata",
                               [errorsDetected |-> 0, errorsResolved |-> 0, errorTrend |-> "unknown"]),
     counters |-> DictGet(data, "counters", EmptyDict),
     timeline |-> DictGet(data, "timeline", << >>),
     envelopeHash |-> DictGet(data, "envelopeHash", NoneObj)]

\* PatchEnvelope.from_json(env.to_json()): the envelope is left as it is, the
\* restored one is handed back
EnvRoundTrip ==
    /\ last.op # "from_json"
    /\ last' = [op |-> "from_json", arg |-> from_json(to_json(env, now + 1))]
    /\ UNCHANGED <<self, now, calls, sandbox_calls, memory, loop, results, chat, env, db>>

NextRoundTrip ==
    \/ NextEnvelope
    \/ EnvRoundTrip

SpecRoundTrip == InitEnvelope /\ [][NextRoundTrip]_vars

LaneOpen(b, error_type) ==
    /\ error_type = "SYNTAX" => b.syntax_attempts < b.syntax_max_attempts
    /\ error_type \in {"LOGIC", "RUNTIME"} => b.logic_attempts < b.logic_max_attempts

\* C28: without a breaker reset, no process_error call takes syntax_attempts
\* above max_syntax_attempts or logic_attempts above max_logic_attempts, and a
\* call that runs the sandbox finds its lane's attempts below the budget
C28_AttemptBudget ==
    [][/\ self'.breaker.syntax_attempts <= self'.breaker.syntax_max_attempts
       /\ self'.breaker.logic_attempts <= self'.breaker.logic_max_attempts
       /\ (AdmittedCall /\ last'.executed) => LaneOpen(self.breaker, last'.args.error_type)]_vars

\* a syntax lane that is spent: the call is refused and the sandbox stays idle
C28_Witness ==
    /\ last.op = "process_error" /\ last.raised = None
    /\ last.args.error_type = "SYNTAX"
    /\ self.breaker.syntax_attempts = self.breaker.syntax_max_attempts
    /\ ~last.executed
    /\ last.result.extras.cb_reason.reason = "Syntax attempts exceeded"

(***************************************************************************)
(* The scorer's own gate, against the gate process_error applies           *)
(***************************************************************************)
should_attempt_fix(confidence_score, error_type) ==
    IF error_type = "SYNTAX" THEN confidence_score.syntax_confidence >= 950000
    ELSE IF error_type \in {"LOGIC", "RUNTIME"} THEN confidence_score.logic_confidence >= 800000
    ELSE confidence_score.overall_confidence >= 850000

\* C29: process_error runs the sandbox only when should_attempt_fix holds for
\* the score it computed: syntax_confidence >= 0.95 for the syntax class,
\* logic_confidence >= 0.80 for logic and runtime, overall_confidence >= 0.85
\* for every other class
C29_FixGate ==
    (last.op = "process_error" /\ last.executed) =>
        should_attempt_fix([syntax_confidence |-> last.result.extras.confidence.syntax,
                            logic_confidence |-> last.result.extras.confidence.logic,
                            overall_confidence |-> last.result.extras.confidence.overall],
                           last.args.error_type)

(***************************************************************************)
(* The stop rule of the cascade, stated on its own terms                   *)
(***************************************************************************)
\* the rank of a class, given as the table's string or as the ErrorType
\* member the orchestrator records
SeverityRank(error_type) ==
    IF error_type \in {"syntax", "SYNTAX"} THEN 1
    ELSE IF error_type \in {"logic", "LOGIC"} THEN 2
    ELSE IF error_type \in {"runtime", "RUNTIME"} THEN 3
    ELSE IF error_type \in {"performance", "PERFORMANCE"} THEN 4
    ELSE 5

StopExpected(chain) ==
    LET n == Len(chain)
    IN  \/ n >= 5
        \/ n >= 3 /\ chain[n - 2].error_type = chain[n - 1].error_type
                  /\ chain[n - 1].error_type = chain[n].error_type
        \/ n >= 3 /\ chain[n - 2].confidence_score > chain[n - 1].confidence_score
                  /\ chain[n - 1].confidence_score > chain[n].confidence_score
        \/ n >= 2 /\ SeverityRank(chain[n].error_type) > SeverityRank(chain[n - 1].error_type)

\* C30: should_stop_attempting answers true exactly when the chain is five
\* deep, or its last three entries share a class, or confidence falls strictly
\* over its last three entries, or the last entry outranks the one before it
\* in severity; also on the chain process_error builds from its failures
C30_StopExactly ==
    should_stop_attempting(self.error_chain).stop <=> StopExpected(self.error_chain)

(***************************************************************************)
(* The pause between the passes of one attempt_with_backoff call           *)
(***************************************************************************)
\* a step in which the loop calls process_error and goes on to another pass
PassToNextPass ==
    /\ Running
    /\ calls' = calls + 1
    /\ loop'.pc \in {"running", "sleep"}
    /\ loop.attempt < loop.max_attempts

\* the loop is asleep for the backoff of pass k, scaled by a factor in [0.8, 1.2]
SleepsBackoff(l, k) ==
    LET backoff_ms == Min(l.max_ms, l.min_ms * Pow2(k - 1))
    IN  /\ l.pc = "sleep"
        /\ (backoff_ms * 8) \div 10 <= l.wait_ms
        /\ l.wait_ms <= (backoff_ms * 12) \div 10

\* C31: between two consecutive process_error invocations of one
\* attempt_with_backoff call the loop sleeps, once, for
\* min(max_ms, min_ms * 2^(k-1)) ms times a jitter in [0.8, 1.2], k being the
\* number of the earlier attempt
C31_SleepBetweenAttempts ==
    [][PassToNextPass => SleepsBackoff(loop', loop.attempt)]_vars

(***************************************************************************)
(* The retry loop where the deployed schema document and the envelope      *)
(* disagree: the schema requires a field no envelope carries.              *)
(***************************************************************************)
StrictSchema == {"patch_id", "patch_data", "metadata", "attempts", "success", "schemaVersion"}

FatalWorlds == Worlds \cup {w @@ [schema |-> StrictSchema] : w \in Worlds}

NextFatal ==
    \/ \E incident \in Incidents, opts \in Opts : StartBackoff(incident, opts)
    \/ \E world \in FatalWorlds, jitter \in Jitters : Attempt(world, jitter)
    \/ Wake
    \/ \E idx \in 1..MaxCalls : Tamper(idx)

SpecFatal == Init /\ [][NextFatal]_vars

\* the exception that left the loop is one of the two fatal kinds
FatalLeft ==
    \/ loop.pc = "fatal"
    \/ loop.pc = "raised" /\ last.raised = "PatchEnvelope validation failed"

\* C32: a fatal failure that leaves attempt_with_backoff (tampering, schema
\* violation) is in the chat history as a tool message before it leaves
C32_FatalRecorded ==
    FatalLeft => \E i \in 1..Len(chat) : chat[i].role = "tool" /\ chat[i].metadata.phase = "error"

\* ---------------------------------------------------------------------------
\* Two sessions saving success patterns through one store.  Every call of
\* save_success_pattern opens a connection of its own and takes no lock: the
\* SELECT runs outside a transaction and the write that follows commits alone,
\* so another session's call can run between the two.
Sessions == {1, 2}

\* SELECT id, success_count, avg_confidence ... fetchone(): the first matching
\* row, or nothing
select_existing(store, error_code, cluster_id, fix_description) ==
    LET rows == store.success_patterns
        found == {i \in 1..Len(rows) : matches(rows[i], error_code, cluster_id, fix_description)}
    IN  IF found = {} THEN << >>
        ELSE <<rows[CHOOSE j \in found : \A k \in found : j <= k]>>

\* the write of save_success_pattern, computed from the row the SELECT returned:
\* UPDATE ... WHERE id = ?, or INSERT, which the UNIQUE(error_code, cluster_id,
\* fix_description) constraint refuses when the row has appeared meanwhile
write_pattern(store, existing, error_code, cluster_id, fix_description, fix_diff, confidence, clock) ==
    LET rows == store.success_patterns
    IN  IF existing # << >>
        THEN LET old_count == existing[1].success_count
                 old_avg == existing[1].avg_confidence
                 new_count == old_count + 1
                 new_avg == (old_avg * old_count + confidence) \div new_count
             IN  [raised |-> None,
                  store |-> [store EXCEPT !.success_patterns =
                      [i \in 1..Len(rows) |->
                          IF rows[i].id = existing[1].id
                          THEN [rows[i] EXCEPT !.success_count = new_count, !.avg_confidence = new_avg,
                                               !.tags = auto_tags(confidence), !.last_success_at = clock]
                          ELSE rows[i]]]]
        ELSE IF \E i \in 1..Len(rows) : matches(rows[i], error_code, cluster_id, fix_description)
        THEN [raised |-> "IntegrityError", store |-> store]
        ELSE [raised |-> None,
              store |-> [success_patterns |->
                  Append(rows, [id |-> store.sqlite_sequence + 1, error_code |-> error_code,
                                cluster_id |-> cluster_or_empty(cluster_id),
                                fix_description |-> fix_description, fix_diff |-> fix_diff,
                                success_count |-> 1, avg_confidence |-> confidence,
                                tags |-> auto_tags(confidence), last_success_at |-> clock]),
                         sqlite_sequence |-> store.sqlite_sequence + 1]]

IdleSession == [pc |-> "idle", raised |-> None]

InitConcurrent ==
    /\ self = AIDebugger(HealerPolicy)
    /\ now = 0
    /\ calls = 0
    /\ sandbox_calls = 0
    /\ memory = << >>
    /\ db \in {t \in SeedTables : \A i \in 1..Len(t.success_patterns) :
                  /\ t.success_patterns[i].avg_confidence = 300000
                  /\ t.success_patterns[i].tags = SqlNull}
    /\ last = [op |-> "init", saves |-> << >>, seed |-> db]
    /\ loop = [s \in Sessions |-> IdleSession]
    /\ results = << >>
    /\ chat = << >>
    /\ env = PatchEnvelope("p1", [patched_code |-> <<"pass">>], EmptyDict)

\* session s enters save_success_pattern and runs its SELECT
SelectExisting(s, key, confidence) ==
    /\ calls < MaxStoreCalls
    /\ loop[s].pc = "idle"
    /\ calls' = calls + 1
    /\ loop' = [loop EXCEPT ![s] =
           [pc |-> "selected", raised |-> None, key |-> key, confidence |-> confidence,
            existing |-> select_existing(db, key.error_code, key.cluster_id, key.fix_description)]]
    /\ last' = [last EXCEPT !.op = "select", !.saves = Append(@, key)]
    /\ UNCHANGED <<self, now, sandbox_calls, memory, results, chat, env, db>>

\* session s runs its UPDATE or INSERT and commits
WritePattern(s) ==
    /\ loop[s].pc = "selected"
    /\ LET out == write_pattern(db, loop[s].existing, loop[s].key.error_code, loop[s].key.cluster_id,
                                loop[s].key.fix_description, "+ import requests",
                                loop[s].confidence, now)
       IN  /\ db' = out.store
           /\ loop' = [loop EXCEPT ![s] = [pc |-> "idle", raised |-> out.raised]]
    /\ last' = [last EXCEPT !.op = "write"]
    /\ UNCHANGED <<self, now, calls, sandbox_calls, memory, results, chat, env>>

NextConcurrent ==
    \/ \E s \in Sessions, key \in SaveKeys, confidence \in SaveConfidences : SelectExisting(s, key, confidence)
    \/ \E s \in Sessions : WritePattern(s)

SpecConcurrent == InitConcurrent /\ [][NextConcurrent]_vars

\* the success_count stored under a key, 0 when the key has no row
stored_count(store, key) ==
    LET existing == select_existing(store, key.error_code, key.cluster_id, key.fix_description)
    IN  IF existing = << >> THEN 0 ELSE existing[1].success_count

\* the number of saves made under the key of `key`
saves_of(key) ==
    Cardinality({i \in 1..Len(last.saves) :
        /\ last.saves[i].error_code = key.error_code
        /\ cluster_or_empty(last.saves[i].cluster_id) = cluster_or_empty(key.cluster_id)
        /\ last.saves[i].fix_description = key.fix_description})

\* C33: when no save is in flight, the success_count stored under each key is
\* the count the table started with plus the number of saves made under that
\* key: no increment is lost and no save is discarded.
C33_NoLostSave ==
    (\A s \in Sessions : loop[s].pc = "idle") =>
        \A key \in SaveKeys : stored_count(db, key) = stored_count(last.seed, key) + saves_of(key)

\* ---------------------------------------------------------------------------
\* The classifier's verdict on the sandbox's error text.

\* the last call ran the sandbox, its result carried an error_message, and the
\* classifier script was there to run
ClassifiedRuntimeError ==
    /\ last.op = "process_error"
    /\ last.raised = None
    /\ last.executed
    /\ DictHas(last.world.sandbox, "error_message")
    /\ last.world.tool = "ok"

\* C34: when the sandbox result carries an error_message and the classifier's
\* stdin mode exits non-zero with an error packet, the envelope's rebanker_raw
\* is that packet, file and line included; when it exits with 0 the packet kept
\* is no error packet.
C34_ParsedPacketKept ==
    ClassifiedRuntimeError =>
        LET result == rebank_stdin(last.world.sandbox.error_message, FALSE)
            rebanker_raw == DictGet(last.result.envelope.metadata, "rebanker_raw", NoneObj)
        IN  IF result.returncode # 0
            THEN /\ rebanker_raw # NoneObj
                 /\ DictGet(rebanker_raw, "file", None) = result.stdout.file
                 /\ DictGet(rebanker_raw, "line", None) = result.stdout.line
                 /\ DictGet(rebanker_raw, "message", None) = result.stdout.message
            ELSE rebanker_raw = NoneObj \/ ~DictHas(rebanker_raw, "code")

\* ---------------------------------------------------------------------------
\* Attempt numbering within one session of attempt_with_backoff.

\* the attempt number of the last timeline entry of a returned envelope, 0 when
\* the call returned before any attempt was recorded
timeline_attempt(result) ==
    LET timeline == DictGet(result.envelope, "timeline", << >>)
    IN  IF timeline = << >> THEN 0 ELSE Last(timeline).attempt

\* a pass of the loop returns a recorded attempt, and an earlier pass of the
\* same session returned one too
NextRecordedAttempt ==
    /\ Running
    /\ Len(results') = Len(results) + 1
    /\ loop.cur_raw # 0
    /\ timeline_attempt(results[loop.cur_raw]) # 0
    /\ timeline_attempt(Last(results')) # 0

\* C35: from one attempt of a session to the next, the attempt number in the
\* returned envelope's timeline entry and its counters.totalAttempts strictly
\* increase.
C35_AttemptsNumbered ==
    [][NextRecordedAttempt =>
          /\ timeline_attempt(Last(results')) > timeline_attempt(results[loop.cur_raw])
          /\ Last(results').envelope.counters.totalAttempts
                 > results[loop.cur_raw].envelope.counters.totalAttempts]_vars

\* ---------------------------------------------------------------------------
\* The hash carried by a returned envelope.

\* envelopeHash is the stable hash of the envelope's own non-volatile fields
hash_matches(envelope) ==
    /\ DictHas(envelope, "envelopeHash")
    /\ envelope.envelopeHash = compute_stable_envelope_hash(envelope)

\* a step in which process_error returns a result
ProcessErrorReturns == calls' = calls + 1 /\ last'.op = "process_error" /\ last'.raised = None

\* a step in which a pass of attempt_with_backoff hands its result on
PassReturns == Running /\ Len(results') = Len(results) + 1

ReturnedActions == {"PROMOTE", "RETRY", "ROLLBACK", "STOP", "HUMAN_REVIEW"}

\* C36: whatever the action, the envelope in a result returned by process_error
\* or by a pass of attempt_with_backoff carries the stable hash of its own
\* non-volatile fields.
C36_ReturnedHashStable ==
    [][/\ (ProcessErrorReturns /\ last'.result.action \in ReturnedActions)
              => hash_matches(last'.result.envelope)
       /\ (PassReturns /\ Last(results').action \in ReturnedActions)
              => hash_matches(Last(results').envelope)]_vars

\* ---------------------------------------------------------------------------
\* The breaker state written into the envelope's attempt record and timeline.

\* process_error has returned an envelope with a recorded attempt; nothing
\* touches the breaker between the recording and the return
AttemptRecorded ==
    /\ last.op = "process_error"
    /\ last.raised = None
    /\ DictGet(last.result.envelope, "attempts", << >>) # << >>
    /\ DictGet(last.result.envelope, "timeline", << >>) # << >>

\* C37: the attempt record and the timeline entry of a returned envelope say
\* CLOSED exactly when the orchestrator's breaker is CLOSED, and otherwise name
\* the open state the breaker is in.
C37_BreakerStateRecorded ==
    AttemptRecorded =>
        LET record == Last(last.result.envelope.attempts)
            entry == Last(last.result.envelope.timeline)
            recorded == DictGet(DictGet(record, "breaker", EmptyDict), "state", None)
        IN  /\ recorded = self.breaker.circuit_state
            /\ entry.breakerState = self.breaker.circuit_state

\* ---------------------------------------------------------------------------
\* Denials of the breaker across the two lanes.
LaneClasses == {"SYNTAX", "LOGIC", "RUNTIME"}

\* C38: within one orchestrator, a class of the syntax or logic lane that
\* can_attempt denies stays denied over every later step (the orchestrator never
\* resets its breaker), also when an attempt in the other lane rewrites
\* circuit_state.
C38_DenialSticks ==
    [][\A error_type \in LaneClasses :
           ~can_attempt(self.breaker, error_type).allow
               => ~can_attempt(self'.breaker, error_type).allow]_vars

\* C38 witness: the syntax lane was opened, a failure in the logic lane has
\* since rewritten circuit_state, and can_attempt still denies the syntax class
C38_Witness ==
    /\ self.breaker.syntax_errors > 0
    /\ self.breaker.logic_errors > 0
    /\ self.breaker.circuit_state # "SYNTAX_OPEN"
    /\ self.breaker.circuit_state # "PERMANENTLY_OPEN"
    /\ ~can_attempt(self.breaker, "SYNTAX").allow
    /\ last.op = "process_error"
    /\ last.args.error_type = "SYNTAX"
    /\ last.raised = None
    /\ last.result.action = "STOP"

\* ---------------------------------------------------------------------------
\* The default policy's lanes.  An orchestrator under HealerPolicy first
\* promotes some patches of the syntax and then of the logic class, one call a
\* minute, and then serves calls of all five classes.
MaxPriorSyntax == 2
MaxPriorLogic == 9
LaneIncidents == {Incident(error_type, CleanPatch, 900000) : error_type \in ErrorType}

InitLanes ==
    /\ self = AIDebugger(HealerPolicy)
    /\ InitCommon

\* an earlier call of process_error whose patch passed the sandbox, a minute
\* before whatever comes next
PriorPromote(error_type) ==
    /\ calls = 0
    /\ IF error_type = "SYNTAX"
       THEN self.breaker.syntax_attempts < MaxPriorSyntax /\ self.breaker.logic_attempts = 0
       ELSE self.breaker.logic_attempts < MaxPriorLogic
    /\ LET incident == Incident(error_type, CleanPatch, 900000)
           world == [sandbox |-> [success |-> TRUE], compile |-> NoBlob, tool |-> "ok"]
           args == [error_type |-> incident.error_type, message |-> incident.message,
                    patch_code |-> incident.patch_code, original_code |-> incident.original_code,
                    max_prob |-> incident.max_prob, historical |-> EmptyDict, metadata |-> EmptyDict]
       IN  \E out \in {process_error(self, now, incident.error_type, incident.message,
                                     incident.patch_code, incident.original_code,
                                     incident.max_prob, EmptyDict, EmptyDict, world)} :
              /\ self' = SelfAfter(out)
              /\ sandbox_calls' = sandbox_calls + (IF out.executed THEN 1 ELSE 0)
              /\ memory' = add_outcome(memory, "envelope", out.stored)
              /\ last' = CallRecord("caller", args, world, out)
    /\ now' = now + TickStep
    /\ UNCHANGED <<calls, loop, results, chat, env, db>>

NextLanes ==
    \/ \E error_type \in {"SYNTAX", "LOGIC"} : PriorPromote(error_type)
    \/ \E incident \in LaneIncidents, world \in RateWorlds : ProcessError(incident, EmptyDict, world)

SpecLanes == InitLanes /\ [][NextLanes]_vars

\* the last call ran the sandbox and the patch failed there
FailedAttempt == last.op = "process_error" /\ last.raised = None /\ last.executed /\ ~last.world.sandbox.success

MaxWraps == 3
MaxWrapMs == 1500
WrapSteps == {400, 1000}
WrapPatches == {make_patch(CleanPatch.message, CleanPatch.patch_code, CleanPatch.original_code),
                make_patch(RiskyPatch.message, RiskyPatch.patch_code, RiskyPatch.original_code)}

\* self.envelopes[patch_id] = envelope
register(envelopes, envelope) ==
    [id \in (DOMAIN envelopes) \cup {envelope.patch_id} |->
        IF id = envelope.patch_id THEN envelope ELSE envelopes[id]]

\* INSERT OR REPLACE INTO envelopes: patch_id is UNIQUE, so a row of the same
\* patch_id is deleted and the new row is appended
insert_or_replace(rows, row) ==
    Append(SelectSeq(rows, LAMBDA r : r.patch_id # row.patch_id), row)

\* save_envelope's row for an envelope dict
save_envelope(rows, envelope_data, action) ==
    insert_or_replace(rows, [patch_id |-> envelope_data.patch_id,
                             status |-> IF action = "PROMOTE" THEN "PROMOTED" ELSE action,
                             envelope_json |-> envelope_data])

InitWrap ==
    /\ self = [envelopes |-> << >>]
    /\ now = 0
    /\ calls = 0
    /\ sandbox_calls = 0
    /\ memory = << >>
    /\ last = [op |-> "init", wrapped |-> << >>, saved |-> {}]
    /\ loop = IdleLoop
    /\ results = << >>
    /\ chat = << >>
    /\ env = PatchEnvelope("p1", [patched_code |-> <<"pass">>], EmptyDict)
    /\ db = << >>

WrapTick(step) ==
    /\ now + step <= MaxWrapMs
    /\ now' = now + step
    /\ UNCHANGED <<self, calls, sandbox_calls, memory, last, loop, results, chat, env, db>>

WrapPatch(patch) ==
    /\ calls < MaxWraps
    /\ calls' = calls + 1
    /\ LET envelope == wrap_patch(patch, now)
       IN  /\ self' = [envelopes |-> register(self.envelopes, envelope)]
           /\ last' = [last EXCEPT !.op = "wrap_patch", !.wrapped = Append(@, envelope)]
    /\ UNCHANGED <<now, sandbox_calls, memory, loop, results, chat, env, db>>

SaveEnvelope(idx, action) ==
    /\ idx \in 1..Len(last.wrapped)
    /\ idx \notin last.saved
    /\ db' = save_envelope(db, to_json(last.wrapped[idx], now), action)
    /\ last' = [last EXCEPT !.op = "save_envelope", !.saved = @ \cup {idx}]
    /\ UNCHANGED <<self, now, calls, sandbox_calls, memory, loop, results, chat, env>>

NextWrap ==
    \/ \E step \in WrapSteps : WrapTick(step)
    \/ \E patch \in WrapPatches : WrapPatch(patch)
    \/ \E idx \in 1..MaxWraps, action \in {"RETRY", "PROMOTE"} : SaveEnvelope(idx, action)

SpecWrap == InitWrap /\ [][NextWrap]_vars

\* C40: the envelopes one wrapper has made have pairwise different patch_ids,
\* so the registry holds every one of them and the store holds a row for every
\* one that was saved.
C40_UniquePatchIds ==
    /\ \A i, j \in 1..Len(last.wrapped) :
           i # j => last.wrapped[i].patch_id # last.wrapped[j].patch_id
    /\ \A i \in 1..Len(last.wrapped) : self.envelopes[last.wrapped[i].patch_id] = last.wrapped[i]
    /\ \A i \in last.saved : \E k \in 1..Len(db) :
           /\ db[k].patch_id = last.wrapped[i].patch_id
           /\ db[k].envelope_json.metadata = last.wrapped[i].metadata

====
